---------------------------- MODULE Spec2Model ----------------------------
(***************************************************************************)
(* Sparsity patterns in compressed-column form (casadi/core/sparsity.cpp): *)
(* the canonicalization cache behind Sparsity::assign_cached and the       *)
(* structural algebra built on top of it.                                  *)
(*                                                                         *)
(* A pattern is a record [nrow, ncol, colind, row]; colind and row are     *)
(* sequences, so the C++ element a[i] is At(a, i) == a[i+1].               *)
(***************************************************************************)
EXTENDS Integers, Sequences, FiniteSets, TLC

\* ------------------------------------------------------------------ bounds
\* Largest row and column count of a pattern requested from the cache (Spec).
MaxRowC == 2
MaxColC == 1
\* Largest value of a colind element of a request (Spec).
MaxNnzC == 1
\* Number of handles (Sparsity objects) of the cache model.
NHandles == 2
\* Largest number of cache entries (an insertion beyond it is not taken).
MaxCache == 2
\* Range of the modelled structural hash (small, so that hashes collide).
HashMod == 2
\* Largest row and column count of an argument of the algebra (SpecAlg,
\* SpecTriplet).
MaxDim == 2
\* Largest number of triplets handed to triplet (SpecTriplet).
MaxLen == 3
\* Largest number of triplets handed to triplet in SpecAlg.
MaxLenA == 2
\* Largest number of operands of a concatenation.
MaxOps == 3
\* Largest integer in the arrays handed to a constructor (SpecCtor).
MaxV == 2
\* Largest length of the compact array handed to compressed (SpecCtor).
MaxVLen == 6

\* ----------------------------------------------------------------- helpers
At(s, i) == s[i + 1]

Pattern(nrow, ncol, colind, row) ==
    [nrow |-> nrow, ncol |-> ncol, colind |-> colind, row |-> row]

RECURSIVE SeqsOfLen(_, _)
\* All sequences of length n over the set S.
SeqsOfLen(S, n) ==
    IF n = 0 THEN {<<>>}
    ELSE {Append(s, e) : s \in SeqsOfLen(S, n - 1), e \in S}

VARIABLES handle, node, cache, bucket_count, last, thread, idas, px, py, res

cvars == <<handle, node, cache, bucket_count, last, thread, idas>>
avars == <<px, py, res>>
vars == <<handle, node, cache, bucket_count, last, thread, idas, px, py, res>>

\* ------------------------------------------------------------ singletons
\* EmptySparsity, ScalarSparsity and ScalarSparseSparsity are function-local
\* statics: one node each, alive for the whole run, never in the cache.
EmptyNode == 1
ScalarNode == 2
ScalarSparseNode == 3
Singletons == {EmptyNode, ScalarNode, ScalarSparseNode}

EmptySparsity == Pattern(0, 0, <<0>>, <<>>)
ScalarSparsity == Pattern(1, 1, <<0, 1>>, <<0>>)
\* SparsityInternal(1, 1, {0, 0}, row) keeps colind[ncol] = 0 row indices.
ScalarSparseSparsity == Pattern(1, 1, <<0, 0>>, <<>>)

Handles == 1 .. NHandles
\* The object under construction inside a constructor call.
Temp == 0
NodeIds == 1 .. (3 + NHandles + 1)
Free == [nrow |-> -1]

\* ------------------------------------------------------- structural hash
hash_combine(seed, v) == (seed + seed + v + 1) % HashMod

RECURSIVE hash_combine_array(_, _, _, _)
hash_combine_array(seed, v, k, n) ==
    IF k >= n THEN seed
    ELSE hash_combine_array(hash_combine(seed, At(v, k)), v, k + 1, n)

hash_sparsity(nrow, ncol, colind, row) ==
    LET r1 == hash_combine(0, nrow)
        r2 == hash_combine(r1, ncol)
        r3 == hash_combine_array(r2, colind, 0, ncol + 1)
    IN hash_combine_array(r3, row, 0, At(colind, ncol))

\* SparsityInternal::is_equal: dimension and array equality.
is_equal(p, nrow, ncol, colind, row) ==
    /\ p.nrow = nrow
    /\ p.ncol = ncol
    /\ p.colind = colind
    /\ p.row = row

\* SparsityInternal::sanity_check(true): the compressed-column arrays are
\* well formed (colind starts at 0 and is monotone, row indices in range).
sanity_check(p) ==
    /\ p.nrow >= 0
    /\ p.ncol >= 0
    /\ Len(p.colind) = p.ncol + 1
    /\ At(p.colind, 0) = 0
    /\ \A c \in 0 .. p.ncol - 1 : At(p.colind, c) <= At(p.colind, c + 1)
    /\ Len(p.row) = At(p.colind, p.ncol)
    /\ \A k \in 0 .. Len(p.row) - 1 : At(p.row, k) >= 0 /\ At(p.row, k) < p.nrow

\* ------------------------------------------------- reference counting
\* A state of the cache model as a record, so that the steps of one call
\* can be chained.
State == [handle |-> handle, node |-> node, cache |-> cache, bc |-> bucket_count]

\* SharedObject::assignNode: bind handle h to node n (0: none) and give up
\* the old node; a node that loses its last owner is destroyed, and every
\* weak reference to it turns dead (ref = 0).
assignNode(S, h, n) ==
    LET old == S.handle[h]
        hd == [S.handle EXCEPT ![h] = n]
        dies == /\ old # 0
                /\ old \notin Singletons
                /\ \A g \in DOMAIN hd : hd[g] # old
    IN IF dies
       THEN [S EXCEPT !.handle = hd,
                      !.node = [S.node EXCEPT ![old] = Free],
                      !.cache = [i \in DOMAIN S.cache |->
                                   IF S.cache[i].ref = old
                                   THEN [S.cache[i] EXCEPT !.ref = 0]
                                   ELSE S.cache[i]]]
       ELSE [S EXCEPT !.handle = hd]

FreeIds(S) == {n \in NodeIds : S.node[n] = Free}

\* assignNode(new SparsityInternal(nrow, ncol, colind, row))
assignNew(S, h, req) ==
    LET id == CHOOSE n \in FreeIds(S) : \A m \in FreeIds(S) : n <= m
    IN assignNode([S EXCEPT !.node = [S.node EXCEPT ![id] = req]], h, id)

\* WeakRef::alive
alive(e) == e.ref # 0

\* ---------------------------------------------------------- the cache
\* cache.equal_range(h): the positions of the entries stored under h.
RECURSIVE equal_range(_, _, _)
equal_range(c, h, k) ==
    IF k > Len(c) THEN <<>>
    ELSE IF c[k].key = h THEN <<k>> \o equal_range(c, h, k + 1)
    ELSE equal_range(c, h, k + 1)

\* The inner loop over j (lines 718-732): skips the check of the entries
\* after the dead one.
LaterMatchNone(S, rng, j, req) == 0

RECURSIVE LaterMatch(_, _, _, _)
\* The inner loop over j (lines 718-732): the node of the first live entry
\* after position j of the range that is_equal to the request, or 0.
LaterMatch(S, rng, j, req) ==
    IF j > Len(rng) THEN 0
    ELSE LET e == S.cache[rng[j]]
         IN IF alive(e)
               /\ is_equal(S.node[e.ref], req.nrow, req.ncol, req.colind, req.row)
            THEN e.ref
            ELSE LaterMatch(S, rng, j + 1, req)

RECURSIVE ProbeHashOnly(_, _, _, _)
\* The loop over i with the match decided by the hash alone: the first live
\* entry of the range is taken for the request.
ProbeHashOnly(S, rng, i, req) ==
    IF i > Len(rng) THEN [kind |-> "insert"]
    ELSE LET e == S.cache[rng[i]]
         IN IF alive(e)
            THEN [kind |-> "match", node |-> e.ref]
            ELSE LET m == LaterMatch(S, rng, i + 1, req)
                 IN IF m # 0 THEN [kind |-> "match", node |-> m]
                    ELSE [kind |-> "replace", at |-> rng[i]]

RECURSIVE Probe(_, _, _, _)
\* The loop over i (lines 693-743): what the lookup of the request in the
\* range decides: a live structurally equal node, the dead entry to
\* overwrite, or an insertion.
Probe(S, rng, i, req) ==
    IF i > Len(rng) THEN [kind |-> "insert"]
    ELSE LET e == S.cache[rng[i]]
         IN IF alive(e)
            THEN IF is_equal(S.node[e.ref], req.nrow, req.ncol, req.colind, req.row)
                 THEN [kind |-> "match", node |-> e.ref]
                 ELSE Probe(S, rng, i + 1, req)
            ELSE LET m == LaterMatch(S, rng, i + 1, req)
                 IN IF m # 0 THEN [kind |-> "match", node |-> m]
                    ELSE [kind |-> "replace", at |-> rng[i]]

\* std::unordered_multimap::insert: the table is rehashed to a larger
\* bucket count when the new size exceeds the bucket count.
bucket_count_after_insert(bc, size) ==
    IF size > bc THEN bc + bc + 1 ELSE bc

\* The sweep of lines 756-765: erase every entry that is not alive.
SweepNone(c) == c

Sweep(c) == SelectSeq(c, alive)

\* assign_cached without the separate handling of scalars and empty
\* patterns: every request is hashed and looked up.
DecisionNoBypass(S, req) ==
    IF S.bc > 0
    THEN Probe(S,
               equal_range(S.cache,
                           hash_sparsity(req.nrow, req.ncol, req.colind, req.row), 1),
               1, req)
    ELSE [kind |-> "insert"]

\* What assign_cached decides before it changes anything.
Decision(S, req) ==
    IF req.ncol = 0 /\ req.nrow = 0 THEN [kind |-> "empty"]
    ELSE IF req.ncol = 1 /\ req.nrow = 1
    THEN IF At(req.colind, req.ncol) = 0
         THEN [kind |-> "scalar_sparse"]
         ELSE [kind |-> "scalar"]
    ELSE IF S.bc > 0
    THEN Probe(S,
               equal_range(S.cache,
                           hash_sparsity(req.nrow, req.ncol, req.colind, req.row), 1),
               1, req)
    ELSE [kind |-> "insert"]

\* assign_cached that leaves a dead entry of the range alone and inserts
\* the new node as a further entry.
assign_cached_append(S, h, req) ==
    LET d == Decision(S, req)
        hh == hash_sparsity(req.nrow, req.ncol, req.colind, req.row)
    IN CASE d.kind = "empty" -> assignNode(S, h, EmptyNode)
         [] d.kind = "scalar_sparse" -> assignNode(S, h, ScalarSparseNode)
         [] d.kind = "scalar" -> assignNode(S, h, ScalarNode)
         [] d.kind = "match" -> assignNode(S, h, d.node)
         [] OTHER ->
              LET S1 == assignNew(S, h, req)
              IN [S1 EXCEPT !.cache = Append(S1.cache,
                                             [key |-> hh, ref |-> S1.handle[h]])]

\* Sparsity::assign_cached(nrow, ncol, colind, row) on the handle h.
assign_cached(S, h, req) ==
    LET d == Decision(S, req)
        hh == hash_sparsity(req.nrow, req.ncol, req.colind, req.row)
    IN CASE d.kind = "empty" -> assignNode(S, h, EmptyNode)
         [] d.kind = "scalar_sparse" -> assignNode(S, h, ScalarSparseNode)
         [] d.kind = "scalar" -> assignNode(S, h, ScalarNode)
         [] d.kind = "match" -> assignNode(S, h, d.node)
         [] d.kind = "replace" ->
              LET S1 == assignNew(S, h, req)
              IN [S1 EXCEPT !.cache[d.at] = [key |-> hh, ref |-> S1.handle[h]]]
         [] d.kind = "insert" ->
              LET S1 == assignNew(S, h, req)
                  c1 == Append(S1.cache, [key |-> hh, ref |-> S1.handle[h]])
                  bucket_count_before == S.bc
                  bucket_count_after == bucket_count_after_insert(S.bc, Len(c1))
              IN [S1 EXCEPT !.cache = IF bucket_count_before # bucket_count_after
                                      THEN Sweep(c1) ELSE c1,
                            !.bc = bucket_count_after]


\* ------------------------------------------------------------- add_nz
\* SparsityInternal::is_dense: every element is a structural nonzero.
is_dense(p) == Len(p.row) = p.nrow * p.ncol

\* The column offsets incremented from one column too early.
BumpFromColumn(colind, lo, hi) ==
    [i \in DOMAIN colind |-> IF i - 1 >= lo - 1 /\ i - 1 <= hi THEN colind[i] + 1 ELSE colind[i]]

\* colindv[c]++ for every c in lo .. hi (C++ indices).
Bump(colind, lo, hi) ==
    [i \in DOMAIN colind |-> IF i - 1 >= lo /\ i - 1 <= hi THEN colind[i] + 1 ELSE colind[i]]

\* rowv.insert(rowv.begin() + ind, rr)
InsertAt(row, ind, rr) ==
    SubSeq(row, 1, ind) \o <<rr>> \o SubSeq(row, ind + 1, Len(row))

RECURSIVE add_nz_place(_, _, _, _)
\* The search loop of lines 223-229 from position ind: where rr is or goes.
add_nz_place(p, ind, stop, rr) ==
    IF ind >= stop THEN [found |-> FALSE, ind |-> ind]
    ELSE IF At(p.row, ind) = rr THEN [found |-> TRUE, ind |-> ind]
    ELSE IF At(p.row, ind) > rr THEN [found |-> FALSE, ind |-> ind]
    ELSE add_nz_place(p, ind + 1, stop, rr)

\* The sorted insertion with the element put one place too late.
add_nz_insert_late(p, rr, cc) ==
    LET pl == add_nz_place(p, At(p.colind, cc), At(p.colind, cc + 1), rr)
        at == IF pl.ind < At(p.colind, cc + 1) THEN pl.ind + 1 ELSE pl.ind
    IN IF pl.found
       THEN [assign |-> FALSE, ret |-> pl.ind, p |-> p]
       ELSE [assign |-> TRUE, ret |-> pl.ind,
             p |-> Pattern(p.nrow, p.ncol, Bump(p.colind, cc + 1, p.ncol),
                           InsertAt(p.row, at, rr))]

\* Lines 221-238 of add_nz: the existing element, or the sorted insertion.
add_nz_insert(p, rr, cc) ==
    LET pl == add_nz_place(p, At(p.colind, cc), At(p.colind, cc + 1), rr)
    IN IF pl.found
       THEN [assign |-> FALSE, ret |-> pl.ind, p |-> p]
       ELSE [assign |-> TRUE, ret |-> pl.ind,
             p |-> Pattern(p.nrow, p.ncol, Bump(p.colind, cc + 1, p.ncol),
                           InsertAt(p.row, pl.ind, rr))]

\* Sparsity::add_nz(rr, cc) on the pattern p: ok (the bounds assertions
\* hold), the returned index, and the arrays handed to assign_cached if any.
add_nz(p, rr0, cc0) ==
    LET rr == IF rr0 < 0 THEN rr0 + p.nrow ELSE rr0
        cc == IF cc0 < 0 THEN cc0 + p.ncol ELSE cc0
        nnz == Len(p.row)
    IN IF ~(rr >= 0 /\ rr < p.nrow) \/ ~(cc >= 0 /\ cc < p.ncol)
       THEN [ok |-> FALSE, assign |-> FALSE, ret |-> -1, p |-> p]
       ELSE IF is_dense(p)
       THEN [ok |-> TRUE, assign |-> FALSE, ret |-> rr + cc * p.nrow, p |-> p]
       ELSE IF At(p.colind, cc) = nnz
               \/ (At(p.colind, cc + 1) = nnz /\ At(p.row, nnz - 1) < rr)
       THEN [ok |-> TRUE, assign |-> TRUE, ret |-> nnz,
             p |-> Pattern(p.nrow, p.ncol, Bump(p.colind, cc + 1, p.ncol),
                           Append(p.row, rr))]
       ELSE [ok |-> TRUE] @@ add_nz_insert(p, rr, cc)

\* ------------------------------------------------ the cache model (Spec)
\* The arrays a caller may hand to Sparsity(nrow, ncol, colind, row): they
\* pass the assertions of lines 95-96 and 654-655; colind starts at 0 and is
\* monotone, and a row index may be out of range (equal to nrow).
Colinds(nc) ==
    {ci \in SeqsOfLen(0 .. MaxNnzC, nc + 1) :
        At(ci, 0) = 0 /\ \A c \in 0 .. nc - 1 : At(ci, c) <= At(ci, c + 1)}

CacheRequests ==
    UNION {UNION {UNION {{Pattern(nr, nc, ci, rw) :
                            rw \in SeqsOfLen(0 .. nr, At(ci, nc))} :
                         ci \in Colinds(nc)} :
                  nc \in 0 .. MaxColC} :
           nr \in 0 .. MaxRowC}

NoReq == Pattern(0, 0, <<>>, <<>>)

Record(op, h, req, d, ok) ==
    [op |-> op, h |-> h, req |-> req, kind |-> d.kind,
     ok |-> ok]

\* Node ids stand for addresses: which address a node has is not observable,
\* so after each call the live cached nodes are renamed in the order of the
\* first handle that owns them.
Canonical(S) ==
    LET liveN == {S.handle[h] : h \in Handles} \ ({0} \cup Singletons)
        first(n) == CHOOSE h \in Handles :
                       S.handle[h] = n /\ \A g \in Handles : S.handle[g] = n => h <= g
        to(n) == IF n \in liveN
                 THEN 3 + Cardinality({m \in liveN : first(m) <= first(n)})
                 ELSE n
        from(i) == {n \in liveN : to(n) = i}
    IN [handle |-> [h \in DOMAIN S.handle |-> to(S.handle[h])],
        node |-> [i \in NodeIds |->
                    IF i \in Singletons THEN S.node[i]
                    ELSE IF from(i) = {} THEN Free
                    ELSE S.node[CHOOSE n \in from(i) : TRUE]],
        cache |-> [k \in DOMAIN S.cache |-> [S.cache[k] EXCEPT !.ref = to(@)]],
        bc |-> S.bc]

Commit(S0) ==
    LET S == Canonical(S0)
    IN /\ Len(S.cache) <= MaxCache
       /\ handle' = S.handle
       /\ node' = S.node
       /\ cache' = S.cache
       /\ bucket_count' = S.bc

\* ------------------------------------------------------ IdasInterface
\* The object of src/unnamed/part_000 as far as init(), reset(), resetB(),
\* getJac() and getJacB() use it. f_kind and g_kind are the kinds of the
\* functions f_ and g_ as is_a() sees them, nrx, nq and nrq are the
\* dimensions that the handlers test against zero, and quad_err_con and
\* interpolation_type are the two options that select IDAS calls. The other
\* options keep their defaults (calc_ic and calc_icB true, abstolv unset,
\* dense linear solvers without an exact Jacobian).
\*
\* Members of the object: mem (mem_ != 0), isInitTaping_, isInitAdj_.
\* History of the memory block mem_: ntaping successful IDAAdjInit calls and
\* nadj successful IDACreateB calls on it. History of the object: failed (an
\* IDAS call has returned a flag other than IDA_SUCCESS), asserted (a
\* casadi_assert on one of the two flags has failed). The last call: op, the
\* IDAS call fail that returned a failure in it ("none" for none), the error
\* it raised ("" for none), the IDAS calls it made, and the two flags before
\* it.
IdasInterface(cfg) ==
    [f_kind |-> cfg.f_kind, g_kind |-> cfg.g_kind,
     nrx |-> cfg.nrx, nq |-> cfg.nq, nrq |-> cfg.nrq,
     quad_err_con |-> cfg.quad_err_con,
     interpolation_type |-> cfg.interpolation_type,
     mem |-> FALSE, isInitAdj_ |-> FALSE, isInitTaping_ |-> FALSE,
     ntaping |-> 0, nadj |-> 0, failed |-> FALSE, asserted |-> FALSE,
     op |-> "IdasInterface", fail |-> "none", error |-> "", made |-> <<>>,
     before |-> [isInitTaping_ |-> FALSE, isInitAdj_ |-> FALSE]]

\* The number of backward problems created on one memory block.
MaxAdj == 2

\* What is_a() can say about a function.
Kinds == {"sxfunction", "mxfunction", "function"}

\* The problems and options an IdasInterface is constructed with.
IdasConfigs ==
    [f_kind : Kinds, g_kind : Kinds, nrx : {0, 1}, nq : {0, 1}, nrq : {0, 1},
     quad_err_con : BOOLEAN,
     interpolation_type : {"hermite", "polynomial", "spline"}]

\* No IdasInterface exists: op is "none" and the other fields mean nothing.
NoIdas ==
    [IdasInterface([f_kind |-> "function", g_kind |-> "function",
                    nrx |-> 0, nq |-> 0, nrq |-> 0, quad_err_con |-> FALSE,
                    interpolation_type |-> "hermite"])
       EXCEPT !.op = "none"]

\* A thread that is not inside assign_cached.
Outside == [pc |-> "idle", req |-> NoReq, bucket_count_before |-> 0]

CInit ==
    /\ handle = [h \in {Temp} \cup Handles |-> 0]
    /\ node = [n \in NodeIds |->
                 CASE n = EmptyNode -> EmptySparsity
                   [] n = ScalarNode -> ScalarSparsity
                   [] n = ScalarSparseNode -> ScalarSparseSparsity
                   [] OTHER -> Free]
    /\ cache = <<>>
    /\ bucket_count \in {0, 1}
    /\ last = Record("init", 0, NoReq, [kind |-> "none"], TRUE)
    /\ thread = [t \in Handles |-> Outside]
    /\ idas = NoIdas

AInit ==
    /\ px = EmptySparsity
    /\ py = EmptySparsity
    /\ res = [op |-> "init"]

\* The constructor with sanity_check ahead of assign_cached: a rejected
\* request never reaches the cache.
ConstructChecksFirst(h, req) ==
    LET S1 == assign_cached(State, Temp, req)
        sane == sanity_check(S1.node[S1.handle[Temp]])
        S2 == IF sane
              THEN assignNode(assignNode(S1, h, S1.handle[Temp]), Temp, 0)
              ELSE State
    IN /\ Commit(S2)
       /\ last' = Record("construct", h, req, Decision(State, req), sane)
       /\ UNCHANGED <<thread, idas, avars>>

\* h = Sparsity(nrow, ncol, colind, row): the constructor of lines 93-99 on
\* a temporary, which is destroyed again if sanity_check throws and is
\* assigned to the handle h otherwise.
Construct(h, req) ==
    LET S1 == assign_cached(State, Temp, req)
        sane == sanity_check(S1.node[S1.handle[Temp]])
        S2 == IF sane
              THEN assignNode(assignNode(S1, h, S1.handle[Temp]), Temp, 0)
              ELSE assignNode(S1, Temp, 0)
    IN /\ Commit(S2)
       /\ last' = Record("construct", h, req, Decision(State, req), sane)
       /\ UNCHANGED <<thread, idas, avars>>

\* handle h calls add_nz(rr, cc): assign_cached on the handle itself.
AddNz(h, rr, cc) ==
    /\ handle[h] # 0
    /\ LET r == add_nz(node[handle[h]], rr, cc)
       IN /\ r.ok
          /\ r.assign
          /\ Commit(assign_cached(State, h, r.p))
          /\ last' = Record("add_nz", h, r.p, Decision(State, r.p), TRUE)
    /\ UNCHANGED <<thread, idas, avars>>

\* g = h: the handle g shares the node of the handle h.
Copy(g, h) ==
    /\ g # h
    /\ handle[h] # 0
    /\ Commit(assignNode(State, g, handle[h]))
    /\ last' = Record("copy", g, NoReq, [kind |-> "none"], TRUE)
    /\ UNCHANGED <<thread, idas, avars>>

\* The handle h is destroyed (or reset): its node loses one owner.
Release(h) ==
    /\ handle[h] # 0
    /\ Commit(assignNode(State, h, 0))
    /\ last' = Record("release", h, NoReq, [kind |-> "none"], TRUE)
    /\ UNCHANGED <<thread, idas, avars>>

Next ==
    \/ \E h \in Handles, req \in CacheRequests : Construct(h, req)
    \/ \E h \in Handles, rr \in 0 .. MaxRowC - 1, cc \in 0 .. MaxColC - 1 : AddNz(h, rr, cc)
    \/ \E g \in Handles, h \in Handles : Copy(g, h)
    \/ \E h \in Handles : Release(h)

Init == CInit /\ AInit

Spec == Init /\ [][Next]_vars


\* =================================================== structural algebra
\* In the algebra below a Sparsity is the value of its node: patterns are
\* immutable and assign_cached leaves the caller on a node of the requested
\* structure (or on a singleton).
Fail == [ok |-> FALSE, p |-> EmptySparsity]
Ok(p) == [ok |-> TRUE, p |-> p]

\* The structure of the node assign_cached leaves the caller on.
Interned(req) ==
    IF req.ncol = 0 /\ req.nrow = 0 THEN EmptySparsity
    ELSE IF req.ncol = 1 /\ req.nrow = 1
    THEN IF At(req.colind, req.ncol) = 0 THEN ScalarSparseSparsity ELSE ScalarSparsity
    ELSE req

\* Sparsity(nrow, ncol, colind, row), lines 93-99 with the assertions of the
\* vector overload of assign_cached (lines 654-655).
Sparsity4(nrow, ncol, colind, row) ==
    IF ~(nrow >= 0) \/ ~(ncol >= 0) THEN Fail
    ELSE IF Len(colind) # ncol + 1 THEN Fail
    ELSE IF Len(row) # At(colind, Len(colind) - 1) THEN Fail
    ELSE LET p == Interned(Pattern(nrow, ncol, colind, row))
         IN IF sanity_check(p) THEN Ok(p) ELSE Fail

\* Sparsity(nrow, ncol), lines 77-83: the pattern without nonzeros.
Sparsity2(nrow, ncol) ==
    IF ~(nrow >= 0) \/ ~(ncol >= 0) THEN Fail
    ELSE Sparsity4(nrow, ncol, [i \in 1 .. ncol + 1 |-> 0], <<>>)

\* Sparsity::dense(nrow, ncol), lines 800-814.
dense(nrow, ncol) ==
    IF ~(nrow >= 0) \/ ~(ncol >= 0) THEN Fail
    ELSE Sparsity4(nrow, ncol,
                   [i \in 1 .. ncol + 1 |-> (i - 1) * nrow],
                   [k \in 1 .. ncol * nrow |-> (k - 1) % nrow])

\* Sparsity::diag(nrow, ncol), lines 528-541.
diag(nrow, ncol) ==
    LET n == IF nrow < ncol THEN nrow ELSE ncol
    IN IF ncol + 1 < 0 \/ n < 0 THEN Fail
       ELSE Sparsity4(nrow, ncol,
                      [i \in 1 .. ncol + 1 |-> IF i - 1 < n THEN i - 1 ELSE n],
                      [k \in 1 .. n |-> k - 1])

RECURSIVE TriCols(_, _, _, _, _)
\* The column loop of upper (up = TRUE: rows 0 .. cc) and of lower (rows
\* cc .. nrow-1): the arrays after the columns cc .. n-1 are appended.
TriCols(up, n, cc, colind, row) ==
    IF cc >= n THEN [colind |-> colind, row |-> row]
    ELSE LET lo == IF up THEN 0 ELSE cc
             hi == IF up THEN cc ELSE n - 1
             row1 == row \o [k \in 1 .. hi - lo + 1 |-> lo + k - 1]
         IN TriCols(up, n, cc + 1, Append(colind, Len(row1)), row1)

\* Sparsity::upper(n), lines 816-835.
upper(n) ==
    IF ~(n >= 0) THEN Fail
    ELSE LET a == TriCols(TRUE, n, 0, <<0>>, <<>>)
         IN Sparsity4(n, n, a.colind, a.row)

\* Sparsity::lower(n), lines 837-856.
lower(n) ==
    IF ~(n >= 0) THEN Fail
    ELSE LET a == TriCols(FALSE, n, 0, <<0>>, <<>>)
         IN Sparsity4(n, n, a.colind, a.row)

Max(a, b) == IF a > b THEN a ELSE b
Min(a, b) == IF a < b THEN a ELSE b
Abs(a) == IF a < 0 THEN -a ELSE a

\* band with the offsets of row and colind taken from -p.
band_mirrored(n, p) ==
    IF ~(n >= 0) \/ ~(Abs(p) < n) THEN Fail
    ELSE LET nc == n - Abs(p)
             row == [i \in 1 .. nc |-> (i - 1) + Max(-p, 0)]
             colind == [i \in 1 .. n + 1 |-> Max(Min((i - 1) + Min(-p, 0), nc), 0)]
         IN Sparsity4(n, n, colind, row)

\* Sparsity::band(n, p), lines 858-881.
band(n, p) ==
    IF ~(n >= 0) \/ ~(Abs(p) < n) THEN Fail
    ELSE LET nc == n - Abs(p)
             row == [i \in 1 .. nc |-> (i - 1) + Max(p, 0)]
             colind == [i \in 1 .. n + 1 |-> Max(Min((i - 1) + Min(p, 0), nc), 0)]
         IN Sparsity4(n, n, colind, row)

\* ------------------------------------------------------------ triplet
\* fill(v.begin(), v.end(), 0) on a vector resized to n.
Zeros(n) == [i \in 1 .. n |-> 0]

\* v[i]++ (C++ index i)
Inc(v, i) == [v EXCEPT ![i + 1] = @ + 1]

\* v[i] = e (C++ index i)
Set(v, i, e) == [v EXCEPT ![i + 1] = e]

\* v.resize(n): truncated, or filled up with zeros.
Resize(v, n) == [i \in 1 .. n |-> IF i <= Len(v) THEN v[i] ELSE 0]

\* Line 937-938 as written: the ordering test of one triplet against the
\* one before it.
StillOrdered(colk, rowk, last_col, last_row) ==
    colk < last_col \/ (colk = last_col /\ rowk <= last_row)

\* The upper bound taken as admissible.
IndexInBoundsInclusive(i, n) == i >= 0 /\ i <= n

\* Lines 933-934: col[k]>=0 && col[k]<ncol, row[k]>=0 && row[k]<nrow.
IndexInBounds(i, n) == i >= 0 /\ i < n

RECURSIVE TripletScan(_, _, _, _, _, _, _, _)
\* The loop of lines 931-941 from k: ok (both assertions hold for every
\* triplet) and perfectly_ordered.
TripletScan(nrow, ncol, row, col, k, last_col, last_row, po) ==
    IF k >= Len(col) THEN [ok |-> TRUE, perfectly_ordered |-> po]
    ELSE IF ~IndexInBounds(At(col, k), ncol) THEN [ok |-> FALSE, perfectly_ordered |-> po]
    ELSE IF ~IndexInBounds(At(row, k), nrow) THEN [ok |-> FALSE, perfectly_ordered |-> po]
    ELSE TripletScan(nrow, ncol, row, col, k + 1, At(col, k), At(row, k),
                     po /\ StillOrdered(At(col, k), At(row, k), last_col, last_row))

RECURSIVE FastColind(_, _, _, _, _)
\* The loop of lines 951-954: r_colind[i+1] = number of leading entries of
\* col in the columns 0 .. i.
FastColind(col, ncol, i, el, colind) ==
    IF i >= ncol THEN colind
    ELSE LET RECURSIVE skip(_)
             skip(e) == IF e < Len(col) /\ At(col, e) = i THEN skip(e + 1) ELSE e
             el1 == skip(el)
         IN FastColind(col, ncol, i + 1, el1, Set(colind, i + 1, el1))

RECURSIVE CountKeys(_, _, _, _)
\* count[key(items[k]) + 1]++ for the items from position k on.
CountKeys(count, items, key, k) ==
    IF k >= Len(items) THEN count
    ELSE CountKeys(Inc(count, At(key, At(items, k)) + 1), items, key, k + 1)

RECURSIVE Cumsum(_, _, _)
\* count[i+1] += count[i] for i = i .. n-1
Cumsum(count, i, n) ==
    IF i >= n THEN count
    ELSE Cumsum(Set(count, i + 1, At(count, i + 1) + At(count, i)), i + 1, n)

RECURSIVE Scatter(_, _, _, _, _)
\* out[count[key(items[k])]++] = items[k] for the items from position k on.
Scatter(out, count, items, key, k) ==
    IF k >= Len(items) THEN out
    ELSE LET it == At(items, k)
             at == At(count, At(key, it))
         IN Scatter(Set(out, at, it), Inc(count, At(key, it)), items, key, k + 1)

\* The bucket sort by rows left out: the triplets stay in input order.
RowOrderAsGiven(nrow, row) == [k \in 1 .. Len(row) |-> k - 1]

\* Lines 971-988: the triplet indices in the order of their rows (stable).
RowOrder(nrow, row) ==
    LET ids == [k \in 1 .. Len(row) |-> k - 1]
        rowcount == Cumsum(CountKeys(Zeros(nrow + 1), ids, row, 0), 0, nrow)
    IN Scatter(Zeros(Len(row)), rowcount, ids, row, 0)

\* Lines 990-1006: the row-ordered indices in the order of their columns.
ColOrder(ncol, col, mapping2) ==
    LET colcount == Cumsum(CountKeys(Zeros(ncol + 1), mapping2, col, 0), 0, ncol)
    IN Scatter(Zeros(Len(col)), colcount, mapping2, col, 0)

\* Duplicates are never detected.
NeverDuplicate(j, j_prev) == FALSE

\* Line 1033 and 1041: the element repeats the row of the one before it.
IsDuplicate(j, j_prev) == j = j_prev

\* The inverse mapping saved one place too far.
SaveMappingOffByOne(m1, m2, el, r_el, fresh, invert_mapping) ==
    [m1 |-> IF ~invert_mapping /\ fresh THEN Set(m1, r_el - 1, el) ELSE m1,
     m2 |-> IF invert_mapping /\ r_el < Len(m2) THEN Set(m2, el, r_el) ELSE m2]

\* Lines 1036-1043: mapping2[el] = r_el-1 if invert_mapping, and otherwise
\* mapping1[r_el-1] = el unless the element is a duplicate.
SaveMapping(m1, m2, el, r_el, fresh, invert_mapping) ==
    [m1 |-> IF ~invert_mapping /\ fresh THEN Set(m1, r_el - 1, el) ELSE m1,
     m2 |-> IF invert_mapping THEN Set(m2, el, r_el - 1) ELSE m2]

RECURSIVE TripletMerge(_, _, _, _, _)
\* The loops of lines 1017-1051. m1 and m2 are the vectors mapping1 and
\* mapping2; r_row is mapping1 if invert_mapping and mapping2 otherwise, so
\* a write to r_row is a write to that vector.
TripletMerge(st, ncol, row, col, invert_mapping) ==
    IF st.i >= ncol THEN st
    ELSE IF st.it < Len(st.m1) /\ At(col, At(st.m1, st.it)) = st.i
    THEN LET el == At(st.m1, st.it)
             j == At(row, el)
             fresh == ~IsDuplicate(j, st.j_prev)
             r_el == IF fresh THEN st.r_el + 1 ELSE st.r_el
             \* r_row[r_el++] = j
             a1 == IF fresh /\ invert_mapping THEN Set(st.m1, st.r_el, j) ELSE st.m1
             a2 == IF fresh /\ ~invert_mapping THEN Set(st.m2, st.r_el, j) ELSE st.m2
             b == SaveMapping(a1, a2, el, r_el, fresh, invert_mapping)
         IN TripletMerge([st EXCEPT !.it = st.it + 1, !.j_prev = j, !.r_el = r_el,
                                    !.m1 = b.m1, !.m2 = b.m2],
                         ncol, row, col, invert_mapping)
    ELSE TripletMerge([st EXCEPT !.i = st.i + 1, !.j_prev = -1,
                                 !.r_colind = Set(st.r_colind, st.i + 1, st.r_el)],
                      ncol, row, col, invert_mapping)

TripletFail ==
    [ok |-> FALSE, p |-> EmptySparsity, mapping |-> <<>>, fast |-> FALSE,
     built |-> FALSE, req |-> NoReq]

\* Sparsity::triplet(nrow, ncol, row, col, mapping, invert_mapping),
\* lines 915-1062: ok, the pattern, the mapping, and whether the quick
\* return of lines 944-962 was taken.
triplet(nrow, ncol, row, col, invert_mapping) ==
    IF ~(nrow >= 0) \/ ~(ncol >= 0) \/ Len(col) # Len(row) THEN TripletFail
    ELSE LET scan == TripletScan(nrow, ncol, row, col, 0, -1, -1, TRUE)
         IN IF ~scan.ok THEN TripletFail
            ELSE IF scan.perfectly_ordered
            THEN LET r_colind == FastColind(col, ncol, 0, 0, Zeros(ncol + 1))
                     r == Sparsity4(nrow, ncol, r_colind, row)
                 IN [ok |-> r.ok, p |-> r.p, fast |-> TRUE,
                     built |-> TRUE, req |-> Pattern(nrow, ncol, r_colind, row),
                     mapping |-> [k \in 1 .. Len(row) |-> k - 1]]
            ELSE LET mapping2 == RowOrder(nrow, row)
                     mapping1 == ColOrder(ncol, col, mapping2)
                     st == TripletMerge([i |-> 0, it |-> 0, j_prev |-> -1, r_el |-> 0,
                                         m1 |-> mapping1, m2 |-> mapping2,
                                         r_colind |-> Zeros(ncol + 1)],
                                        ncol, row, col, invert_mapping)
                     r_row == Resize(IF invert_mapping THEN st.m1 ELSE st.m2, st.r_el)
                     r == Sparsity4(nrow, ncol, st.r_colind, r_row)
                 IN [ok |-> r.ok, p |-> r.p, fast |-> FALSE,
                     built |-> TRUE, req |-> Pattern(nrow, ncol, st.r_colind, r_row),
                     mapping |-> IF invert_mapping THEN st.m2
                                 ELSE Resize(st.m1, st.r_el)]

\* Sparsity::triplet(nrow, ncol, row, col), lines 1064-1068.
triplet4(nrow, ncol, row, col) ==
    LET r == triplet(nrow, ncol, row, col, FALSE)
    IN [ok |-> r.ok, p |-> r.p]

\* ------------------------------------------- unite, banded and unit
RECURSIVE MergeColumn(_, _, _, _, _)
\* SparsityInternal::combine on one column: the two-pointer merge of two
\* sorted row slices. A row of both slices is kept; a row of a only is
\* dropped if function0_is_zero, a row of b only if f0x_is_zero.
MergeColumn(a, b, f0x_is_zero, function0_is_zero, acc) ==
    IF a = <<>> /\ b = <<>> THEN acc
    ELSE IF a = <<>> THEN (IF f0x_is_zero THEN acc ELSE acc \o b)
    ELSE IF b = <<>> THEN (IF function0_is_zero THEN acc ELSE acc \o a)
    ELSE IF Head(a) = Head(b)
    THEN MergeColumn(Tail(a), Tail(b), f0x_is_zero, function0_is_zero, Append(acc, Head(a)))
    ELSE IF Head(a) < Head(b)
    THEN MergeColumn(Tail(a), b, f0x_is_zero, function0_is_zero,
                     IF function0_is_zero THEN acc ELSE Append(acc, Head(a)))
    ELSE MergeColumn(a, Tail(b), f0x_is_zero, function0_is_zero,
                     IF f0x_is_zero THEN acc ELSE Append(acc, Head(b)))

\* The row indices of column c of p (C++ index c).
Column(p, c) == SubSeq(p.row, At(p.colind, c) + 1, At(p.colind, c + 1))

RECURSIVE CombineCols(_, _, _, _, _, _, _)
CombineCols(a, b, f0x_is_zero, function0_is_zero, c, colind, row) ==
    IF c >= a.ncol THEN [colind |-> colind, row |-> row]
    ELSE LET row1 == row \o MergeColumn(Column(a, c), Column(b, c),
                                        f0x_is_zero, function0_is_zero, <<>>)
         IN CombineCols(a, b, f0x_is_zero, function0_is_zero, c + 1,
                        Append(colind, Len(row1)), row1)

\* Sparsity::combine(y, f0x_is_zero, function0_is_zero), lines 378-381.
combine(a, b, f0x_is_zero, function0_is_zero) ==
    IF a.nrow # b.nrow \/ a.ncol # b.ncol THEN Fail
    ELSE LET r == CombineCols(a, b, f0x_is_zero, function0_is_zero, 0, <<0>>, <<>>)
         IN Sparsity4(a.nrow, a.ncol, r.colind, r.row)

\* Sparsity::unite(y), lines 387-389, which is operator+ (lines 417-419).
unite(a, b) == combine(a, b, FALSE, FALSE)

\* The intersection with only one of the two flags set.
intersect_one_flag(a, b) == combine(a, b, TRUE, FALSE)

\* Sparsity::intersect(y), lines 396-398.
intersect(a, b) == combine(a, b, TRUE, TRUE)

RECURSIVE BandedLoop(_, _, _, _)
\* The loop of lines 886-888 from i: ret = ret + band(n, i).
BandedLoop(ret, n, i, p) ==
    IF i > p THEN Ok(ret)
    ELSE LET b == band(n, i)
         IN IF ~b.ok THEN Fail
            ELSE LET u == unite(ret, b.p)
                 IN IF ~u.ok THEN Fail ELSE BandedLoop(u.p, n, i + 1, p)

\* Sparsity::banded(n, p), lines 883-890.
banded(n, p) ==
    LET ret == Sparsity2(n, n)
    IN IF ~ret.ok THEN Fail ELSE BandedLoop(ret.p, n, -p, p)

\* Sparsity::unit(n, el), lines 892-897.
unit(n, el) == Sparsity4(n, 1, <<0, 1>>, <<el>>)

\* ------------------------------------------------------ concatenation
\* The dimension of the first operand, whatever it is.
FirstOperandDim(dims, i, ret) == IF Len(dims) = 0 THEN 0 ELSE dims[1]

RECURSIVE FirstNonzero(_, _, _)
\* for (i=0; i<sp.size() && ret==0; ++i) ret = dim(sp[i])   (lines 1142-1143)
FirstNonzero(dims, i, ret) ==
    IF i >= Len(dims) \/ ret # 0 THEN ret
    ELSE FirstNonzero(dims, i + 1, At(dims, i))

\* The entries of sp in column order as triplets, rows shifted by dr and
\* columns by dc (lines 1156-1161 and 1242-1247).
RECURSIVE Entries(_, _, _, _, _)
Entries(sp, cc, dr, dc, acc) ==
    IF cc >= sp.ncol THEN acc
    ELSE LET rows == Column(sp, cc)
         IN Entries(sp, cc + 1, dr, dc,
                    [row |-> acc.row \o [k \in 1 .. Len(rows) |-> rows[k] + dr],
                     col |-> acc.col \o [k \in 1 .. Len(rows) |-> cc + dc]])

\* The row check of horzcat with the exemption of zero-row operands left
\* out.
DimAgreesStrict(d, ret_d) == d = ret_d

\* Lines 1152 and 1238: the operand agrees with the result in the dimension
\* that is not concatenated, or has none of it.
DimAgrees(d, ret_d) == d = ret_d \/ d = 0

RECURSIVE HorzcatLoopSkipsEmpty(_, _, _, _, _)
\* The loop of horzcat with the columns of an operand counted only if the
\* operand has nonzeros.
HorzcatLoopSkipsEmpty(sp, i, ret_nrow, ret_ncol, acc) ==
    IF i >= Len(sp) THEN triplet4(ret_nrow, ret_ncol, acc.row, acc.col)
    ELSE LET s == At(sp, i)
         IN IF ~DimAgrees(s.nrow, ret_nrow) THEN Fail
            ELSE HorzcatLoopSkipsEmpty(sp, i + 1, ret_nrow,
                                       ret_ncol + (IF Len(s.row) = 0 THEN 0 ELSE s.ncol),
                                       Entries(s, 0, 0, ret_ncol, acc))

RECURSIVE HorzcatLoop(_, _, _, _, _)
\* The loop of lines 1146-1165 from operand i.
HorzcatLoop(sp, i, ret_nrow, ret_ncol, acc) ==
    IF i >= Len(sp) THEN triplet4(ret_nrow, ret_ncol, acc.row, acc.col)
    ELSE LET s == At(sp, i)
         IN IF ~DimAgrees(s.nrow, ret_nrow) THEN Fail
            ELSE HorzcatLoop(sp, i + 1, ret_nrow, ret_ncol + s.ncol,
                             Entries(s, 0, 0, ret_ncol, acc))

\* Sparsity::horzcat(sp), lines 1127-1167.
horzcat(sp) ==
    IF Len(sp) = 0 THEN Sparsity2(0, 0)
    ELSE IF Len(sp) = 1 THEN Ok(sp[1])
    ELSE HorzcatLoop(sp, 0,
                     FirstNonzero([i \in 1 .. Len(sp) |-> sp[i].nrow], 0, 0), 0,
                     [row |-> <<>>, col |-> <<>>])

RECURSIVE VertcatLoop(_, _, _, _, _)
\* The loop of lines 1232-1251 from operand i.
VertcatLoop(sp, i, ret_nrow, ret_ncol, acc) ==
    IF i >= Len(sp) THEN triplet4(ret_nrow, ret_ncol, acc.row, acc.col)
    ELSE LET s == At(sp, i)
         IN IF ~DimAgrees(s.ncol, ret_ncol) THEN Fail
            ELSE VertcatLoop(sp, i + 1, ret_nrow + s.nrow, ret_ncol,
                             Entries(s, 0, ret_nrow, 0, acc))

\* Sparsity::vertcat(sp), lines 1213-1253.
vertcat(sp) ==
    IF Len(sp) = 0 THEN Sparsity2(0, 0)
    ELSE IF Len(sp) = 1 THEN Ok(sp[1])
    ELSE VertcatLoop(sp, 0, 0,
                     FirstNonzero([i \in 1 .. Len(sp) |-> sp[i].ncol], 0, 0),
                     [row |-> <<>>, col |-> <<>>])

RECURSIVE DiagcatLoop(_, _, _, _, _, _, _)
\* The loop of lines 1263-1277 from operand i.
DiagcatLoop(v, i, n, m, nz, colind, row) ==
    IF i >= Len(v) THEN Sparsity4(m, n, colind, row)
    ELSE LET s == At(v, i)
         IN DiagcatLoop(v, i + 1, n + s.ncol, m + s.nrow, nz + Len(s.row),
                        colind \o [k \in 1 .. s.ncol |-> At(s.colind, k) + nz],
                        row \o [k \in 1 .. Len(s.row) |-> s.row[k] + m])

\* Sparsity::diagcat(v), lines 1255-1280.
diagcat(v) == DiagcatLoop(v, 0, 0, 0, 0, <<0>>, <<>>)

\* The rows of one column of kron with the two loops interchanged.
KronColumnSwapped(a, b, a_cc, b_cc) ==
    LET ra == Column(a, a_cc)
        rb == Column(b, b_cc)
    IN [k \in 1 .. Len(ra) * Len(rb) |->
          ra[((k - 1) % Len(ra)) + 1] * b.nrow + rb[((k - 1) \div Len(ra)) + 1]]

\* Lines 1198-1205: the rows of the result column (a_cc, b_cc), the loop
\* over the nonzeros of a outside and of b inside.
KronColumn(a, b, a_cc, b_cc) ==
    LET ra == Column(a, a_cc)
        rb == Column(b, b_cc)
    IN [k \in 1 .. Len(ra) * Len(rb) |->
          ra[((k - 1) \div Len(rb)) + 1] * b.nrow + rb[((k - 1) % Len(rb)) + 1]]

RECURSIVE KronLoop(_, _, _, _, _)
\* The loops of lines 1190-1209 from the result column j.
KronLoop(a, b, j, colind, row) ==
    IF j >= a.ncol * b.ncol THEN Sparsity4(a.nrow * b.nrow, a.ncol * b.ncol, colind, row)
    ELSE LET r == KronColumn(a, b, j \div b.ncol, j % b.ncol)
         IN KronLoop(a, b, j + 1, Append(colind, At(colind, j) + Len(r)), row \o r)

\* Sparsity::kron(a, b), lines 1169-1211.
kron(a, b) ==
    IF is_dense(a) /\ is_dense(b) THEN dense(a.nrow * b.nrow, a.ncol * b.ncol)
    ELSE KronLoop(a, b, 0, <<0>>, <<>>)

\* --------------------------------------------------------------- split
\* isMonotone(offset): the offsets are strictly increasing.
isMonotone(offset) == \A i \in 1 .. Len(offset) - 1 : offset[i] < offset[i + 1]

\* The i-th output without the shift of colind by colind[0] (line 1316).
SplitPieceNoShift(x, offset, i) ==
    LET first_col == At(offset, i)
        last_col == At(offset, i + 1)
        ncol == last_col - first_col
        colind == [k \in 1 .. ncol + 1 |->
                     IF k = 1 THEN 0 ELSE At(x.colind, first_col + k - 1)]
        row == SubSeq(x.row, At(x.colind, first_col) + 1, At(x.colind, last_col))
    IN Sparsity4(x.nrow, ncol, colind, row)

\* Lines 1309-1322: the i-th output of horzsplit (C++ index i).
SplitPiece(x, offset, i) ==
    LET first_col == At(offset, i)
        last_col == At(offset, i + 1)
        ncol == last_col - first_col
        colind == [k \in 1 .. ncol + 1 |-> At(x.colind, first_col + k - 1) - At(x.colind, first_col)]
        row == SubSeq(x.row, At(x.colind, first_col) + 1, At(x.colind, last_col))
    IN Sparsity4(x.nrow, ncol, colind, row)

\* horzsplit without the assertion offset.front()==0 of line 1285.
horzsplit_any_front(x, offset) ==
    IF ~(Len(offset) >= 1) THEN [ok |-> FALSE, out |-> <<>>]
    ELSE IF ~(offset[Len(offset)] = x.ncol) \/ ~isMonotone(offset)
    THEN [ok |-> FALSE, out |-> <<>>]
    ELSE LET n == Len(offset) - 1
             pieces == [i \in 1 .. n |-> SplitPiece(x, offset, i - 1)]
         IN IF \E i \in 1 .. n : ~pieces[i].ok THEN [ok |-> FALSE, out |-> <<>>]
            ELSE [ok |-> TRUE, out |-> [i \in 1 .. n |-> pieces[i].p]]

\* Sparsity::horzsplit(x, offset), lines 1282-1327: ok and the outputs.
horzsplit(x, offset) ==
    IF ~(Len(offset) >= 1) THEN [ok |-> FALSE, out |-> <<>>]
    ELSE IF ~(offset[1] = 0) \/ ~(offset[Len(offset)] = x.ncol) \/ ~isMonotone(offset)
    THEN [ok |-> FALSE, out |-> <<>>]
    ELSE LET n == Len(offset) - 1
             pieces == [i \in 1 .. n |-> SplitPiece(x, offset, i - 1)]
         IN IF \E i \in 1 .. n : ~pieces[i].ok THEN [ok |-> FALSE, out |-> <<>>]
            ELSE [ok |-> TRUE, out |-> [i \in 1 .. n |-> pieces[i].p]]

\* SparsityInternal::_appendVector: the column vector sp below the column
\* vector x.
appendVector(x, sp) ==
    Sparsity4(x.nrow + sp.nrow, 1, <<0, Len(x.row) + Len(sp.row)>>,
              x.row \o [k \in 1 .. Len(sp.row) |-> sp.row[k] + x.nrow])

\* SparsityInternal::_appendColumns: the columns of sp to the right of the
\* columns of x.
appendColumnsInternal(x, sp) ==
    Sparsity4(x.nrow, x.ncol + sp.ncol,
              x.colind \o [k \in 1 .. sp.ncol |-> sp.colind[k + 1] + Len(x.row)],
              x.row \o sp.row)

\* append without the assertion size2()==sp.size2() of line 438.
append_unchecked(x, sp) ==
    IF sp.nrow = 0 /\ sp.ncol = 0 THEN Ok(x)
    ELSE IF x.nrow = 0 /\ x.ncol = 0 THEN Ok(sp)
    ELSE IF sp.nrow = 0 THEN Ok(x)
    ELSE IF x.nrow = 0 THEN Ok(sp)
    ELSE IF x.ncol = 1
    THEN appendVector(x, sp)
    ELSE vertcat(<<x, sp>>)

\* Sparsity::append(sp) on a handle that refers to x, lines 430-457: ok and
\* the pattern the handle refers to afterwards.
append(x, sp) ==
    IF sp.nrow = 0 /\ sp.ncol = 0 THEN Ok(x)
    ELSE IF x.nrow = 0 /\ x.ncol = 0 THEN Ok(sp)
    ELSE IF ~(x.ncol = sp.ncol) THEN [ok |-> FALSE, p |-> x]
    ELSE IF sp.nrow = 0 THEN Ok(x)
    ELSE IF x.nrow = 0 THEN Ok(sp)
    ELSE IF x.ncol = 1
    THEN appendVector(x, sp)
    ELSE vertcat(<<x, sp>>)

\* Sparsity::appendColumns(sp) on a handle that refers to x, lines 459-482.
appendColumns(x, sp) ==
    IF sp.nrow = 0 /\ sp.ncol = 0 THEN Ok(x)
    ELSE IF x.nrow = 0 /\ x.ncol = 0 THEN Ok(sp)
    ELSE IF ~(x.nrow = sp.nrow) THEN [ok |-> FALSE, p |-> x]
    ELSE IF sp.ncol = 0 THEN Ok(x)
    ELSE IF x.ncol = 0 THEN Ok(sp)
    ELSE appendColumnsInternal(x, sp)

\* Sparsity::add_nz on a pattern value: ok, the returned index and the
\* pattern the handle refers to afterwards.
add_nz_value(p, rr, cc) ==
    LET r == add_nz(p, rr, cc)
    IN [ok |-> r.ok, ret |-> r.ret, p |-> IF r.ok /\ r.assign THEN Interned(r.p) ELSE p]

\* ------------------------------------------ the algebra model (SpecAlg)
\* px and py are two Sparsity values of the caller. A call is made on them
\* and its outcome recorded in res; the caller then keeps one of the
\* returned patterns (Take: it becomes px, the old px becomes py) or drops
\* the outcome (Drop).
AlgInit ==
    /\ CInit
    /\ bucket_count = 0
    /\ AInit

Ready == res.op = "init"

Fits(p) == p.nrow <= MaxDim /\ p.ncol <= MaxDim

Call(op, args, ints, r) ==
    /\ Ready
    /\ res' = [op |-> op, args |-> args, ints |-> ints, ok |-> r.ok,
               out |-> IF r.ok THEN <<r.p>> ELSE <<>>]
    /\ UNCHANGED <<px, py>>
    /\ UNCHANGED cvars

Take(i) ==
    /\ ~Ready
    /\ res.ok
    /\ i \in DOMAIN res.out
    /\ Fits(res.out[i])
    /\ px' = res.out[i]
    /\ py' = px
    /\ res' = [op |-> "init"]
    /\ UNCHANGED cvars

Drop ==
    /\ ~Ready
    /\ res' = [op |-> "init"]
    /\ UNCHANGED <<px, py>>
    /\ UNCHANGED cvars

UpTo(n) == UNION {SeqsOfLen(0 .. n - 1, k) : k \in 0 .. MaxLenA}

Dense(nrow, ncol) == Call("dense", <<>>, <<nrow, ncol>>, dense(nrow, ncol))

Diag(nrow, ncol) == Call("diag", <<>>, <<nrow, ncol>>, diag(nrow, ncol))

Upper(n) == Call("upper", <<>>, <<n>>, upper(n))

Lower(n) == Call("lower", <<>>, <<n>>, lower(n))

Band(n, p) == Call("band", <<>>, <<n, p>>, band(n, p))

Banded(n, p) == Call("banded", <<>>, <<n, p>>, banded(n, p))

Unit(n, el) == Call("unit", <<>>, <<n, el>>, unit(n, el))

Triplet(nrow, ncol, row, col) ==
    /\ Len(row) = Len(col)
    /\ Call("triplet", <<>>, <<nrow, ncol>>, triplet4(nrow, ncol, row, col))

\* The operand lists of a concatenation: px and py in any arrangement.
Operands == UNION {SeqsOfLen({"px", "py"}, k) : k \in 0 .. MaxOps}

Values(sel) == [i \in 1 .. Len(sel) |-> IF sel[i] = "px" THEN px ELSE py]

Horzcat(sel) == Call("horzcat", Values(sel), sel, horzcat(Values(sel)))

Vertcat(sel) == Call("vertcat", Values(sel), sel, vertcat(Values(sel)))

\* horzsplit(horzcat({A, B}), {0, A.size2(), A.size2()+B.size2()}): ok and
\* cat are the outcome of horzcat, split_ok and out that of horzsplit.
HorzcatSplit(sel) ==
    LET v == Values(sel)
        c == horzcat(v)
        r == IF c.ok THEN horzsplit(c.p, <<0, v[1].ncol, v[1].ncol + v[2].ncol>>)
             ELSE [ok |-> FALSE, out |-> <<>>]
    IN /\ Ready
       /\ Len(sel) = 2
       /\ res' = [op |-> "horzcat_horzsplit", args |-> v, ints |-> sel, ok |-> c.ok,
                  cat |-> c.p, split_ok |-> r.ok, out |-> r.out]
       /\ UNCHANGED <<px, py>>
       /\ UNCHANGED cvars

Unite(sel) ==
    /\ Len(sel) = 2
    /\ Call("unite", Values(sel), sel, unite(Values(sel)[1], Values(sel)[2]))

Intersect(sel) ==
    /\ Len(sel) = 2
    /\ Call("intersect", Values(sel), sel, intersect(Values(sel)[1], Values(sel)[2]))

Diagcat(sel) == Call("diagcat", Values(sel), <<>>, diagcat(Values(sel)))

Kron(sel) ==
    /\ Len(sel) = 2
    /\ Call("kron", Values(sel), <<>>, kron(Values(sel)[1], Values(sel)[2]))

\* horzcat(horzsplit(px, offset)): ok and pieces are the outcome of
\* horzsplit, cat_ok and out that of horzcat.
SplitCat(offset) ==
    LET r == horzsplit(px, offset)
        c == IF r.ok THEN horzcat(r.out) ELSE Fail
    IN /\ Ready
       /\ res' = [op |-> "horzsplit_horzcat", args |-> <<px>>, ints |-> offset,
                  ok |-> r.ok, pieces |-> r.out, cat_ok |-> c.ok,
                  out |-> IF c.ok THEN <<c.p>> ELSE <<>>]
       /\ UNCHANGED <<px, py>>
       /\ UNCHANGED cvars

\* A copy of px calls append(py) or appendColumns(py): out is the pattern
\* the copy refers to afterwards.
AppendCall(op) ==
    LET r == IF op = "append" THEN append(px, py) ELSE appendColumns(px, py)
    IN /\ Ready
       /\ res' = [op |-> op, args |-> <<px, py>>, ints |-> <<>>, ok |-> r.ok,
                  out |-> <<r.p>>]
       /\ UNCHANGED <<px, py>>
       /\ UNCHANGED cvars

Horzsplit(offset) ==
    LET r == horzsplit(px, offset)
    IN /\ Ready
       /\ res' = [op |-> "horzsplit", args |-> <<px>>, ints |-> offset, ok |-> r.ok,
                  out |-> r.out]
       /\ UNCHANGED <<px, py>>
       /\ UNCHANGED cvars

\* add_nz(rr, cc) on a copy of px: out is the pattern the copy refers to
\* afterwards.
AddNzValue(rr, cc) ==
    LET r == add_nz_value(px, rr, cc)
    IN /\ Ready
       /\ res' = [op |-> "add_nz", args |-> <<px>>, ints |-> <<rr, cc>>, ok |-> r.ok,
                  out |-> IF r.ok THEN <<r.p>> ELSE <<>>, ret |-> r.ret]
       /\ UNCHANGED <<px, py>>
       /\ UNCHANGED cvars

\* An accessor outcome: thrown (std::out_of_range) or the value returned.
Thrown == [thrown |-> TRUE, value |-> 0]
Returned(v) == [thrown |-> FALSE, value |-> v]

\* Sparsity::row(int el), lines 166-173.
row_at(p, el) ==
    IF el < 0 \/ el >= Len(p.row) THEN Thrown ELSE Returned(At(p.row, el))

\* The last admissible column index rejected.
colind_at_exclusive(p, cc) ==
    IF cc < 0 \/ cc >= p.ncol THEN Thrown ELSE Returned(At(p.colind, cc))

\* Sparsity::colind(int cc), lines 175-182.
colind_at(p, cc) ==
    IF cc < 0 \/ cc > p.ncol THEN Thrown ELSE Returned(At(p.colind, cc))

Access(op, i, r) ==
    /\ Ready
    /\ res' = [op |-> op, args |-> <<px>>, ints |-> <<i>>, ok |-> ~r.thrown,
               out |-> <<>>, value |-> r.value]
    /\ UNCHANGED <<px, py>>
    /\ UNCHANGED cvars

RowAt(el) == Access("row", el, row_at(px, el))

ColindAt(cc) == Access("colind", cc, colind_at(px, cc))

RECURSIVE MaxMatching(_, _, _)
\* The largest number of columns c .. ncol-1 of p that can be matched to
\* distinct rows outside used, each column to a row where it has a nonzero.
MaxMatching(p, c, used) ==
    IF c >= p.ncol THEN 0
    ELSE LET skip == MaxMatching(p, c + 1, used)
             free == {At(p.row, k) : k \in At(p.colind, c) .. At(p.colind, c + 1) - 1} \ used
             take == {1 + MaxMatching(p, c + 1, used \cup {r}) : r \in free}
         IN IF take = {} THEN skip
            ELSE Max(skip, CHOOSE m \in take : \A n \in take : n <= m)

\* Element 3 of the coarse column blocks that btf computes: the structural
\* rank, the size of a maximum matching of columns to rows.
btf_coarse_colblock_3(p) == MaxMatching(p, 0, {})

\* Sparsity::sprank(x), lines 1378-1382: coarse_colblock.at(3).
sprank(p) == btf_coarse_colblock_3(p)

\* Singularity tested without the assertion on the shape.
is_singular_any_shape(p) == Returned(sprank(p) # p.ncol)

\* Sparsity::is_singular(), lines 1070-1074: the assertion is_square()
\* throws on a pattern that is not square.
is_singular(p) ==
    IF p.nrow # p.ncol THEN Thrown ELSE Returned(sprank(p) # p.ncol)

IsSingular == Access("is_singular", 0, is_singular(px))

\* Lines 1445-1451: sums[k] = true, and k is linked in front of the list
\* if it is not on it (next[k] == -1).
Norm0Mark(st, k) ==
    IF At(st.next, k) = -1
    THEN [next |-> Set(st.next, k, st.head), sums |-> Set(st.sums, k, TRUE),
          head |-> k, length |-> st.length + 1]
    ELSE [st EXCEPT !.sums = Set(st.sums, k, TRUE)]

RECURSIVE Norm0Column(_, _, _, _)
\* Lines 1439-1452: the rows k of the columns j of x, for the rows j of
\* column i of A, from the nonzero jj of A and the nonzero kk of x on.
Norm0Column(st, x, A, pos) ==
    IF pos.jj >= pos.jj_end THEN st
    ELSE LET j == At(A.row, pos.jj)
         IN IF pos.kk < 0
            THEN Norm0Column(st, x, A, [pos EXCEPT !.kk = At(x.colind, j)])
            ELSE IF pos.kk >= At(x.colind, j + 1)
            THEN Norm0Column(st, x, A, [pos EXCEPT !.jj = @ + 1, !.kk = -1])
            ELSE Norm0Column(Norm0Mark(st, At(x.row, pos.kk)), x, A,
                             [pos EXCEPT !.kk = @ + 1])

RECURSIVE Norm0UnwindKeepsNext(_, _, _)
\* The walk of the list without next[temp] = -1.
Norm0UnwindKeepsNext(st, jj, nnz) ==
    IF jj >= st.length THEN [st |-> st, nnz |-> nnz]
    ELSE Norm0UnwindKeepsNext([st EXCEPT !.head = At(st.next, st.head),
                                         !.sums = Set(st.sums, st.head, FALSE)],
                              jj + 1,
                              IF At(st.sums, st.head) THEN nnz + 1 ELSE nnz)

RECURSIVE Norm0Unwind(_, _, _)
\* Lines 1454-1462: the list is walked, counted and cleared.
Norm0Unwind(st, jj, nnz) ==
    IF jj >= st.length THEN [st |-> st, nnz |-> nnz]
    ELSE Norm0Unwind([st EXCEPT !.head = At(st.next, st.head),
                                !.next = Set(st.next, st.head, -1),
                                !.sums = Set(st.sums, st.head, FALSE)],
                     jj + 1,
                     IF At(st.sums, st.head) THEN nnz + 1 ELSE nnz)

RECURSIVE Norm0Pass2(_, _, _, _, _)
\* Lines 1433-1464: pass 2 from column i of A on.
Norm0Pass2(x, A, i, next, nnz) ==
    IF i >= A.ncol THEN nnz
    ELSE LET st == Norm0Column([next |-> next.next, sums |-> next.sums,
                                head |-> -2, length |-> 0], x, A,
                               [jj |-> At(A.colind, i), jj_end |-> At(A.colind, i + 1),
                                kk |-> -1])
             u == Norm0Unwind(st, 0, nnz)
         IN Norm0Pass2(x, A, i + 1, [next |-> u.st.next, sums |-> u.st.sums], u.nnz)

\* Sparsity::norm_0_mul(x, A), lines 1388-1468. Pass 1 (lines 1410-1427)
\* writes only nnz, Cp and mask, which pass 2 resets or never reads.
norm_0_mul(x, A) ==
    IF ~(A.nrow = x.ncol) THEN Thrown
    ELSE Returned(Norm0Pass2(x, A, 0,
                             [next |-> [k \in 1 .. x.nrow |-> -1],
                              sums |-> [k \in 1 .. x.nrow |-> FALSE]], 0))

Norm0Mul ==
    LET r == norm_0_mul(px, py)
    IN /\ Ready
       /\ res' = [op |-> "norm_0_mul", args |-> <<px, py>>, ints |-> <<>>,
                  ok |-> ~r.thrown, out |-> <<>>, value |-> r.value]
       /\ UNCHANGED <<px, py>>
       /\ UNCHANGED cvars

Dims == 0 .. MaxDim

AlgNext ==
    \/ Ready /\ \E nrow \in -1 .. MaxDim, ncol \in Dims : Dense(nrow, ncol)
    \/ Ready /\ \E nrow \in Dims, ncol \in Dims : Diag(nrow, ncol)
    \/ Ready /\ \E n \in -1 .. MaxDim : Upper(n)
    \/ Ready /\ \E n \in -1 .. MaxDim : Lower(n)
    \/ Ready /\ \E n \in Dims, p \in -MaxDim .. MaxDim : Band(n, p)
    \/ Ready /\ \E n \in Dims, p \in -1 .. MaxDim : Banded(n, p)
    \/ Ready /\ \E n \in Dims, el \in 0 .. MaxDim : Unit(n, el)
    \/ Ready /\ \E nrow \in Dims, ncol \in Dims :
                   \E row \in UpTo(nrow), col \in UpTo(ncol) : Triplet(nrow, ncol, row, col)
    \/ Ready /\ \E sel \in Operands : Horzcat(sel)
    \/ Ready /\ \E sel \in Operands : Vertcat(sel)
    \/ Ready /\ \E sel \in Operands : Diagcat(sel)
    \/ Ready /\ \E sel \in Operands : Kron(sel)
    \/ Ready /\ \E sel \in Operands : HorzcatSplit(sel)
    \/ Ready /\ \E sel \in Operands : Unite(sel)
    \/ Ready /\ \E sel \in Operands : Intersect(sel)
    \/ Ready /\ \E k \in 0 .. MaxDim + 1 : \E offset \in SeqsOfLen(Dims, k) : Horzsplit(offset)
    \/ Ready /\ \E rr \in -MaxDim .. MaxDim, cc \in -MaxDim .. MaxDim : AddNzValue(rr, cc)
    \/ Ready /\ \E el \in -1 .. MaxDim * MaxDim : RowAt(el)
    \/ Ready /\ \E cc \in -1 .. MaxDim + 1 : ColindAt(cc)
    \/ IsSingular
    \/ Ready /\ \E op \in {"append", "appendColumns"} : AppendCall(op)
    \/ Norm0Mul
    \/ Ready /\ \E k \in 0 .. MaxDim + 1 : \E offset \in SeqsOfLen(Dims, k) : SplitCat(offset)
    \/ \E i \in 1 .. MaxDim : Take(i)
    \/ Drop

SpecAlg == AlgInit /\ [][AlgNext]_vars

\* --------------------------------------- the triplet model (SpecTriplet)
\* One call of triplet on arbitrary small arguments: row indices from
\* 0 .. nrow and column indices from 0 .. ncol (the last value of each is
\* out of bounds), and row and col of different lengths.
TripletArgs(nrow, ncol) ==
    UNION {SeqsOfLen(0 .. nrow, k) \X SeqsOfLen(0 .. ncol, k) : k \in 0 .. MaxLen}
    \cup (SeqsOfLen(0 .. nrow, 1) \X SeqsOfLen(0 .. ncol, 0))
    \cup (SeqsOfLen(0 .. nrow, 1) \X SeqsOfLen(0 .. ncol, 2))

TripletCall(nrow, ncol, row, col, invert_mapping) ==
    LET r == triplet(nrow, ncol, row, col, invert_mapping)
    IN /\ Ready
       /\ res' = [op |-> "triplet", nrow |-> nrow, ncol |-> ncol, row |-> row,
                  col |-> col, invert_mapping |-> invert_mapping, ok |-> r.ok,
                  out |-> IF r.ok THEN <<r.p>> ELSE <<>>,
                  mapping |-> IF r.ok THEN r.mapping ELSE <<>>, fast |-> r.fast]
       /\ UNCHANGED <<px, py>>
       /\ UNCHANGED cvars

TripletNext ==
    \/ Ready /\ \E nrow \in -1 .. MaxDim, ncol \in -1 .. MaxDim :
                   \E a \in TripletArgs(nrow, ncol), invert_mapping \in BOOLEAN :
                      TripletCall(nrow, ncol, a[1], a[2], invert_mapping)
    \/ Drop

SpecTriplet == AlgInit /\ [][TripletNext]_vars

\* ------------------------------ construction from arrays (SpecCtor)
\* Sparsity(nrow, ncol, const int* colind, const int* row), lines 101-112.
\* has_colind = FALSE is colind == 0; row is read only on the sparse branch.
SparsityPtr(nrow, ncol, has_colind, colind, row) ==
    IF ~(nrow >= 0) \/ ~(ncol >= 0) THEN Fail
    ELSE IF ~has_colind \/ At(colind, ncol) = nrow * ncol
    THEN dense(nrow, ncol)
    ELSE Sparsity4(nrow, ncol, colind, SubSeq(row, 1, At(colind, ncol)))

\* Sparsity::compressed(const int* v), lines 1097-1113, on the array v.
compressed_ptr(v) ==
    LET nrow == At(v, 0)
        ncol == At(v, 1)
        colind == SubSeq(v, 3, 3 + ncol)
        nnz == At(colind, ncol)
    IN IF nrow * ncol = nnz
       THEN dense(nrow, ncol)
       ELSE Sparsity4(nrow, ncol, colind, SubSeq(v, 2 + ncol + 1 + 1, 2 + ncol + 1 + nnz))

\* Sparsity::compressed(const std::vector<int>& v), lines 1080-1095.
compressed(v) ==
    IF ~(Len(v) >= 2) THEN Fail
    ELSE LET nrow == At(v, 0)
             ncol == At(v, 1)
         IN IF ~(Len(v) >= 2 + ncol + 1) THEN Fail
            ELSE LET nnz == At(v, 2 + ncol)
                     is_dense_form == Len(v) = 2 + ncol + 1 /\ nrow * ncol = nnz
                     is_sparse_form == Len(v) = 2 + ncol + 1 + nnz
                 IN IF ~(is_dense_form \/ is_sparse_form) THEN Fail
                    ELSE compressed_ptr(v)

\* The integer arrays of at most n elements a caller may hand over.
Arrays(n) == UNION {SeqsOfLen(0 .. MaxV, k) : k \in 0 .. n}

CtorResult(op, nrow, ncol, has_colind, colind, has_row, row, r) ==
    /\ res' = [op |-> op, nrow |-> nrow, ncol |-> ncol, has_colind |-> has_colind,
               colind |-> colind, has_row |-> has_row, row |-> row,
               ok |-> r.ok, out |-> IF r.ok THEN <<r.p>> ELSE <<>>]
    /\ UNCHANGED <<px, py>>
    /\ UNCHANGED cvars

\* Sparsity(nrow, ncol, colind, row) on vectors.
CtorVec(nrow, ncol, colind, row) ==
    CtorResult("Sparsity", nrow, ncol, TRUE, colind, TRUE, row,
               Sparsity4(nrow, ncol, colind, row))

\* Sparsity(nrow, ncol, colind, row) on pointers: colind, if given, points
\* to ncol+1 integers, and row, if given, to colind[ncol] integers; row may
\* be left out only where the constructor does not read it.
CtorPtr(nrow, ncol, has_colind, colind, has_row, row) ==
    /\ has_colind => Len(colind) = ncol + 1
    /\ ~has_colind => colind = <<>>
    /\ has_row => /\ has_colind
                  /\ Len(row) = IF ncol >= 0 THEN At(colind, ncol) ELSE 0
    /\ ~has_row => /\ row = <<>>
                   /\ nrow >= 0 /\ ncol >= 0
                   /\ has_colind => At(colind, ncol) = nrow * ncol
    /\ CtorResult("SparsityPtr", nrow, ncol, has_colind, colind, has_row, row,
                  SparsityPtr(nrow, ncol, has_colind, colind, row))

\* compressed(v): the dimensions, colind and row as v supplies them are
\* recorded with the outcome (has_row: v is longer than its dense form).
CompressedCall(v) ==
    LET r == compressed(v)
        parsed == Len(v) >= 2 /\ Len(v) >= 2 + At(v, 1) + 1
        ncol == IF parsed THEN At(v, 1) ELSE 0
    IN /\ res' = [op |-> "compressed", v |-> v, parsed |-> parsed,
                  nrow |-> IF parsed THEN At(v, 0) ELSE 0, ncol |-> ncol,
                  has_colind |-> parsed,
                  colind |-> IF parsed THEN SubSeq(v, 3, 3 + ncol) ELSE <<>>,
                  has_row |-> parsed /\ Len(v) > 2 + ncol + 1,
                  row |-> IF parsed THEN SubSeq(v, 2 + ncol + 1 + 1, Len(v)) ELSE <<>>,
                  ok |-> r.ok, out |-> IF r.ok THEN <<r.p>> ELSE <<>>]
       /\ UNCHANGED <<px, py>>
       /\ UNCHANGED cvars

CtorNext ==
    \/ Ready /\ \E nrow \in -1 .. MaxDim, ncol \in -1 .. MaxDim :
                   \E colind \in Arrays(MaxDim + 1), row \in Arrays(MaxLenA) :
                      CtorVec(nrow, ncol, colind, row)
    \/ Ready /\ \E nrow \in -1 .. MaxDim, ncol \in -1 .. MaxDim :
                   \E colind \in Arrays(MaxDim + 1), row \in Arrays(MaxLenA) :
                      \E has_colind \in BOOLEAN, has_row \in BOOLEAN :
                         CtorPtr(nrow, ncol, has_colind, colind, has_row, row)
    \/ Ready /\ \E v \in Arrays(MaxVLen) : CompressedCall(v)
    \/ Drop

SpecCtor == AlgInit /\ [][CtorNext]_vars

\* -------------------------- the static constructors on the cache (SpecCalls)
\* The call op(args) by the owner of the handle h. built = FALSE: an
\* assertion failed before a Sparsity was constructed, and nothing was
\* touched. Otherwise the arrays req went to Sparsity(nrow, ncol, colind,
\* row) as in Construct, and the result was assigned to h.
CallOn(op, h, args, built, req) ==
    /\ IF ~built
       THEN /\ UNCHANGED <<handle, node, cache, bucket_count>>
            /\ last' = [op |-> op, h |-> h, req |-> NoReq, kind |-> "none",
                        ok |-> FALSE, args |-> args]
       ELSE LET S1 == assign_cached(State, Temp, req)
                sane == sanity_check(S1.node[S1.handle[Temp]])
                S2 == IF sane
                      THEN assignNode(assignNode(S1, h, S1.handle[Temp]), Temp, 0)
                      ELSE assignNode(S1, Temp, 0)
            IN /\ Commit(S2)
               /\ last' = [op |-> op, h |-> h, req |-> req,
                           kind |-> Decision(State, req).kind, ok |-> sane,
                           args |-> args]
    /\ UNCHANGED <<thread, idas, avars>>

\* h = Sparsity::triplet(nrow, ncol, row, col)
TripletOn(h, nrow, ncol, row, col) ==
    LET r == triplet(nrow, ncol, row, col, FALSE)
    IN CallOn("triplet", h, [nrow |-> nrow, ncol |-> ncol, row |-> row, col |-> col],
              r.built, r.req)

\* h = Sparsity(nrow, ncol), lines 77-83.
Sparsity2On(h, nrow, ncol) ==
    CallOn("Sparsity2", h, [nrow |-> nrow, ncol |-> ncol],
           nrow >= 0 /\ ncol >= 0,
           Pattern(nrow, ncol, [i \in 1 .. ncol + 1 |-> 0], <<>>))

\* Sparsity::dense with the row indices laid out row by row.
DenseOnRowMajor(h, nrow, ncol) ==
    CallOn("dense", h, [nrow |-> nrow, ncol |-> ncol],
           nrow >= 0 /\ ncol >= 0,
           Pattern(nrow, ncol, [i \in 1 .. ncol + 1 |-> (i - 1) * nrow],
                   [k \in 1 .. ncol * nrow |-> (k - 1) \div ncol]))

\* h = Sparsity::dense(nrow, ncol), lines 800-814.
DenseOn(h, nrow, ncol) ==
    CallOn("dense", h, [nrow |-> nrow, ncol |-> ncol],
           nrow >= 0 /\ ncol >= 0,
           Pattern(nrow, ncol, [i \in 1 .. ncol + 1 |-> (i - 1) * nrow],
                   [k \in 1 .. ncol * nrow |-> (k - 1) % nrow]))

\* row and col of a triplet call on the cache: at most MaxNnzC elements
\* each, a row index up to nrow and a column index up to ncol.
TripletArgsC(nrow, ncol) ==
    (UNION {SeqsOfLen(0 .. nrow, k) : k \in 0 .. MaxNnzC})
        \X (UNION {SeqsOfLen(0 .. ncol, k) : k \in 0 .. MaxNnzC})

\* last only records the latest call. Idle: no call is on record; Ack: the
\* record of the latest call is cleared. A static constructor is called
\* when no call is on record.
Idle == last.op \in {"init", "ack"}

Ack ==
    /\ ~Idle
    /\ last' = Record("ack", 0, NoReq, [kind |-> "none"], TRUE)
    /\ UNCHANGED <<handle, node, cache, bucket_count>>
    /\ UNCHANGED <<thread, idas, avars>>

CallsNext ==
    \/ \E g \in Handles, h \in Handles : Copy(g, h)
    \/ \E h \in Handles : Release(h)
    \/ Idle /\ \E h \in Handles, nrow \in -1 .. MaxRowC, ncol \in -1 .. MaxColC :
                  \E a \in TripletArgsC(nrow, ncol) : TripletOn(h, nrow, ncol, a[1], a[2])
    \/ Idle /\ \E h \in Handles, nrow \in -1 .. MaxRowC, ncol \in -1 .. MaxColC :
                  Sparsity2On(h, nrow, ncol)
    \/ Idle /\ \E h \in Handles, nrow \in -1 .. MaxRowC, ncol \in -1 .. MaxRowC + MaxColC :
                  DenseOn(h, nrow, ncol)
    \/ Ack

SpecCalls == Init /\ [][CallsNext]_vars

\* ------------------------------------------------ claims on the cache
AssignCalled(l) == l.op \in {"construct", "add_nz"}

Trivial(req) ==
    \/ (req.nrow = 0 /\ req.ncol = 0)
    \/ (req.nrow = 1 /\ req.ncol = 1)

\* ----------------------------------------------- two threads on the cache
\* getCache hands every caller the same static map and assign_cached takes
\* no lock (lines 484-487, 677-766), so the steps of two calls interleave.
\* The thread t constructs Sparsity(nrow, ncol, colind, row) into its own
\* handle t. Each step below is one group of accesses to the map; the
\* accesses of a group are taken together, which is one of the outcomes of
\* the unsynchronised accesses.

\* Lines 661-684: a 0x0 or 1x1 request is answered by a singleton at once;
\* any other request is hashed and the bucket count is recorded.
Enter(t, req) ==
    /\ thread[t].pc = "idle"
    /\ handle[t] = 0
    /\ IF Trivial(req)
       THEN /\ Commit(assign_cached(State, t, req))
            /\ thread' = thread
            /\ last' = Record("enter", t, req, Decision(State, req), TRUE)
       ELSE /\ UNCHANGED <<handle, node, cache, bucket_count>>
            /\ thread' = [thread EXCEPT ![t] =
                            [pc |-> "lookup", req |-> req,
                             bucket_count_before |-> bucket_count]]
            /\ last' = Record("enter", t, req, [kind |-> "hashed"], TRUE)
    /\ UNCHANGED <<idas, avars>>

\* Lines 93-99 after assign_cached: sanity_check on the node the handle got;
\* the object is destroyed when it throws.
Checked(S, t) ==
    IF sanity_check(S.node[S.handle[t]]) THEN S ELSE assignNode(S, t, 0)

\* Lines 687-743: the lookup in the range of the hash. A live equal entry
\* or a dead entry ends the call; otherwise the insertion is still to come.
Lookup(t) ==
    /\ thread[t].pc = "lookup"
    /\ LET req == thread[t].req
           S == [State EXCEPT !.bc = thread[t].bucket_count_before]
           d == Decision(S, req)
       IN /\ IF d.kind = "insert"
             THEN /\ UNCHANGED <<handle, node, cache, bucket_count>>
                  /\ thread' = [thread EXCEPT ![t].pc = "insert"]
             ELSE /\ Commit(Checked([assign_cached(S, t, req)
                                       EXCEPT !.bc = bucket_count], t))
                  /\ thread' = [thread EXCEPT ![t] = Outside]
          /\ last' = Record("lookup", t, req, d, TRUE)
    /\ UNCHANGED <<idas, avars>>

\* Lines 747-765: the new node is created and inserted, and the dead
\* entries are erased if the bucket count is not the recorded one.
Insert(t) ==
    /\ thread[t].pc = "insert"
    /\ LET req == thread[t].req
           S1 == assignNew(State, t, req)
           c1 == Append(S1.cache,
                        [key |-> hash_sparsity(req.nrow, req.ncol, req.colind, req.row),
                         ref |-> S1.handle[t]])
           bucket_count_after == bucket_count_after_insert(bucket_count, Len(c1))
           S2 == [S1 EXCEPT !.cache = IF thread[t].bucket_count_before # bucket_count_after
                                      THEN Sweep(c1) ELSE c1,
                            !.bc = bucket_count_after]
       IN /\ Commit(Checked(S2, t))
          /\ thread' = [thread EXCEPT ![t] = Outside]
          /\ last' = Record("insert", t, req, [kind |-> "insert"], TRUE)
    /\ UNCHANGED <<idas, avars>>

ThreadsNext ==
    \/ \E t \in Handles, req \in CacheRequests : Enter(t, req)
    \/ \E t \in Handles : Lookup(t)
    \/ \E t \in Handles : Insert(t)
    \/ \E h \in Handles : Release(h)

SpecThreads == Init /\ [][ThreadsNext]_vars

\* C17: the accesses of assign_cached to the cache are serialized: two
\* threads are never both between their lookup of the hash range and their
\* insertion, and when two threads request the same non-trivial structure
\* at most one live node for it is registered in the cache.
C17_CacheAccessSerialized ==
    /\ \A t, u \in Handles :
          (thread[t].pc = "insert" /\ thread[u].pc = "insert") => t = u
    /\ \A i, j \in DOMAIN cache :
          (i # j /\ alive(cache[i]) /\ alive(cache[j]))
              => node[cache[i].ref] # node[cache[j].ref]

\* Two threads hold distinct nodes of the same structure, both registered
\* alive in the cache.
C17_TwoLiveNodes ==
    /\ handle[1] # handle[2]
    /\ handle[1] # 0
    /\ handle[2] # 0
    /\ node[handle[1]] = node[handle[2]]
    /\ \E i, j \in DOMAIN cache :
          i # j /\ cache[i].ref = handle[1] /\ cache[j].ref = handle[2]


LiveNodes(nd) == {n \in NodeIds : nd[n] # Free}

\* The positions of the live cache entries whose pattern is structurally
\* equal to req.
LiveEqual(req) == {k \in DOMAIN cache : alive(cache[k]) /\ node[cache[k].ref] = req}

\* C1: the cache never holds two live entries whose patterns are
\* structurally equal (same nrow, ncol, colind and row).
C1_OneLivePerStructure ==
    \A i, j \in DOMAIN cache :
        (i # j /\ alive(cache[i]) /\ alive(cache[j]))
            => node[cache[i].ref] # node[cache[j].ref]

\* A request was answered by the live entry that follows a dead entry of
\* the same hash.
C1_Witness ==
    /\ last.op = "construct"
    /\ last.kind = "match"
    /\ Len(cache) = 2
    /\ ~alive(cache[1])
    /\ alive(cache[2])
    /\ cache[1].key = cache[2].key
    /\ handle[last.h] = cache[2].ref

\* C2: a call of assign_cached for a non-trivial structure that has a live
\* structurally equal cache entry binds the caller to the node of that entry
\* and creates neither a node nor a cache entry; and a call for a non-trivial
\* structure never leaves the caller on a node that differs from the request.
C2_MatchByStructure ==
    [][(AssignCalled(last') /\ ~Trivial(last'.req)) =>
         /\ LiveEqual(last'.req) # {} =>
              /\ last'.kind = "match"
              /\ last'.ok
              /\ Len(cache') = Len(cache)
              /\ \A k \in LiveEqual(last'.req) :
                    /\ alive(cache'[k])
                    /\ cache'[k].ref = handle'[last'.h]
              /\ Cardinality(LiveNodes(node')) <= Cardinality(LiveNodes(node))
         /\ last'.ok => node'[handle'[last'.h]] = last'.req
      ]_vars

\* The caller was bound to a cached node while another live pattern with
\* the same hash and a different structure is in the cache.
C2_Witness ==
    /\ last.op = "construct"
    /\ last.kind = "match"
    /\ \E k, j \in DOMAIN cache :
          /\ k # j
          /\ cache[k].ref = handle[last.h]
          /\ alive(cache[j])
          /\ cache[j].key = cache[k].key
          /\ node[cache[j].ref] # last.req

SingletonFor(req) ==
    IF req.nrow = 0 THEN EmptyNode
    ELSE IF At(req.colind, 1) = 0 THEN ScalarSparseNode
    ELSE ScalarNode

\* C3: a call of assign_cached for a 0x0 or 1x1 request binds the caller to
\* the empty, sparse-scalar or dense-scalar singleton and leaves the cache
\* alone: no entry is added, removed or rewritten (an entry can only turn
\* dead, when the caller gave up the last reference to its old node).
C3_TrivialBypass ==
    [][(AssignCalled(last') /\ Trivial(last'.req)) =>
         /\ last'.ok
         /\ handle'[last'.h] = SingletonFor(last'.req)
         /\ bucket_count' = bucket_count
         /\ Len(cache') = Len(cache)
         /\ \A k \in DOMAIN cache :
               /\ cache'[k].key = cache[k].key
               /\ alive(cache'[k]) =>
                     alive(cache[k]) /\ node'[cache'[k].ref] = node[cache[k].ref]
               /\ (alive(cache[k]) /\ ~alive(cache'[k])) =>
                     cache[k].ref = handle[last'.h]
      ]_vars

\* Two handles were bound to the dense-scalar singleton, the second by a
\* constructor call, while the cache holds entries.
C3_Witness ==
    /\ last.op = "construct"
    /\ last.kind = "scalar"
    /\ handle[1] = ScalarNode
    /\ handle[2] = ScalarNode
    /\ cache # <<>>


\* ---------------------------------------------- claims on the algebra
\* The invariant of a pattern: colind has length ncol+1, starts at 0 and is
\* non-decreasing, row has length colind[ncol], and in every column the row
\* indices are strictly increasing and lie in [0, nrow).
Valid(p) ==
    /\ p.nrow >= 0
    /\ p.ncol >= 0
    /\ Len(p.colind) = p.ncol + 1
    /\ p.colind[1] = 0
    /\ \A c \in 1 .. p.ncol : p.colind[c] <= p.colind[c + 1]
    /\ Len(p.row) = p.colind[p.ncol + 1]
    /\ \A k \in 1 .. Len(p.row) : p.row[k] >= 0 /\ p.row[k] < p.nrow
    /\ \A c \in 1 .. p.ncol :
          \A k \in p.colind[c] + 1 .. p.colind[c + 1] - 1 : p.row[k] < p.row[k + 1]

\* The nonzero positions <<row, column>> of a pattern.
NzSet(p) ==
    {<<p.row[k], c - 1>> : c \in 1 .. p.ncol, k \in 1 .. Len(p.row)}
        \cap {q \in (0 .. p.nrow) \X (0 .. p.ncol) :
                \E k \in 1 .. Len(p.row) :
                   /\ p.row[k] = q[1]
                   /\ p.colind[q[2] + 1] < k
                   /\ k <= p.colind[q[2] + 2]}

Shifted(S, dr, dc) == {<<q[1] + dr, q[2] + dc>> : q \in S}

RECURSIVE SumTo(_, _)
\* d[1] + ... + d[n]
SumTo(d, n) == IF n = 0 THEN 0 ELSE SumTo(d, n - 1) + d[n]

Constructors ==
    {"dense", "diag", "upper", "lower", "band", "banded", "unit", "triplet",
     "horzcat", "vertcat", "diagcat", "kron", "horzsplit", "add_nz"}

\* C4: every pattern returned by a successful dense, diag, upper, lower,
\* band, banded, unit, triplet, horzcat, vertcat, diagcat, kron, horzsplit
\* or add_nz, applied in any order to patterns that satisfy the invariant,
\* satisfies the invariant.
C4_InvariantPreserved ==
    /\ Valid(px)
    /\ Valid(py)
    /\ (res.op \in Constructors /\ res.ok) =>
          \A i \in DOMAIN res.out : Valid(res.out[i])

\* add_nz put a new row index in front of an existing one of its column, in
\* a pattern that an earlier call returned.
C4_Witness ==
    /\ res.op = "add_nz"
    /\ res.ok
    /\ res.out[1] # res.args[1]
    /\ res.ret < Len(res.args[1].row)
    /\ Valid(res.out[1])

InRange(r) ==
    /\ r.nrow >= 0
    /\ r.ncol >= 0
    /\ Len(r.row) = Len(r.col)
    /\ \A k \in 1 .. Len(r.row) : r.row[k] >= 0 /\ r.row[k] < r.nrow
    /\ \A k \in 1 .. Len(r.col) : r.col[k] >= 0 /\ r.col[k] < r.ncol

\* C5: triplet with in-range indices returns the nrow x ncol pattern whose
\* nonzero set is the set of distinct pairs (row[k], col[k]), whatever the
\* order and the multiplicity of the triplets.
C5_TripletDistinctPairs ==
    (res.op = "triplet" /\ InRange(res)) =>
        /\ res.ok
        /\ res.out[1].nrow = res.nrow
        /\ res.out[1].ncol = res.ncol
        /\ Valid(res.out[1])
        /\ NzSet(res.out[1]) = {<<res.row[k], res.col[k]>> : k \in 1 .. Len(res.row)}

\* An unsorted input with a duplicate pair was compressed.
C5_Witness ==
    /\ res.op = "triplet"
    /\ res.ok
    /\ Len(res.row) = 3
    /\ res.row[1] = res.row[3]
    /\ res.col[1] = res.col[3]
    /\ res.col[2] < res.col[1]
    /\ Len(res.out[1].row) = 2

\* The column of the compressed entry e (C++ index) of the pattern p.
ColOf(p, e) == CHOOSE c \in 0 .. p.ncol - 1 : At(p.colind, c) <= e /\ e < At(p.colind, c + 1)

\* mapping has one element per input triplet: the compressed index of the
\* entry at (row[k], col[k]).
InputToEntry(r) ==
    /\ Len(r.mapping) = Len(r.row)
    /\ \A k \in 1 .. Len(r.row) :
          /\ r.mapping[k] >= 0
          /\ r.mapping[k] < Len(r.out[1].row)
          /\ At(r.out[1].row, r.mapping[k]) = r.row[k]
          /\ ColOf(r.out[1], r.mapping[k]) = r.col[k]

\* mapping has one element per compressed entry: an input triplet that lies
\* at the position of that entry.
EntryToInput(r) ==
    /\ Len(r.mapping) = Len(r.out[1].row)
    /\ \A e \in 1 .. Len(r.mapping) :
          /\ r.mapping[e] >= 0
          /\ r.mapping[e] < Len(r.row)
          /\ At(r.row, r.mapping[e]) = r.out[1].row[e]
          /\ At(r.col, r.mapping[e]) = ColOf(r.out[1], e - 1)

\* C6 as stated: with invert_mapping = false the mapping goes from the input
\* triplets to the compressed entries, with invert_mapping = true from the
\* compressed entries to the input triplets.
C6_Original ==
    (res.op = "triplet" /\ res.ok) =>
        IF res.invert_mapping THEN EntryToInput(res) ELSE InputToEntry(res)

\* C6 (amended): with invert_mapping = false the mapping has one element per
\* compressed entry, naming an input triplet at that position; with
\* invert_mapping = true it has one element per input triplet, the
\* compressed index of the entry at (row[k], col[k]).
C6_MappingDirection ==
    (res.op = "triplet" /\ res.ok) =>
        IF res.invert_mapping THEN InputToEntry(res) ELSE EntryToInput(res)

\* A duplicate was merged: the default mapping is shorter than the input,
\* the inverted one as long as the input.
C6_Witness ==
    /\ res.op = "triplet"
    /\ res.ok
    /\ Len(res.out[1].row) < Len(res.row)
    /\ Len(res.out[1].row) >= 2
    /\ res.invert_mapping
    /\ Len(res.mapping) = Len(res.row)

IsC7Call ==
    /\ res.op = "triplet"
    /\ res.nrow = 2
    /\ res.ncol = 2
    /\ res.row = <<1, 0, 1>>
    /\ res.col = <<0, 0, 1>>

\* C7 as stated: triplet(2, 2, [1,0,1], [0,0,1]) has nnz 2, colind [0,1,2]
\* and row [1,1].
C7_Original ==
    IsC7Call =>
        /\ res.ok
        /\ Len(res.out[1].row) = 2
        /\ res.out[1].colind = <<0, 1, 2>>
        /\ res.out[1].row = <<1, 1>>

\* C7 (amended): triplet(2, 2, [1,0,1], [0,0,1]) has the three distinct
\* pairs (1,0), (0,0), (1,1): nnz 3, colind [0,2,3] and row [0,1,1].
C7_TripletExample ==
    IsC7Call =>
        /\ res.ok
        /\ Len(res.out[1].row) = 3
        /\ res.out[1].colind = <<0, 2, 3>>
        /\ res.out[1].row = <<0, 1, 1>>

C7_Witness == IsC7Call /\ res.ok /\ ~res.invert_mapping

\* The dimension of operand i that is concatenated (cat) and the one that
\* has to agree (fix).
CatDim(op, p) == IF op = "horzcat" THEN p.ncol ELSE p.nrow
FixDim(op, p) == IF op = "horzcat" THEN p.nrow ELSE p.ncol

IsCat(r) == r.op \in {"horzcat", "vertcat"} /\ Len(r.args) >= 2

\* The nonzeros of the concatenation of the operands a.
CatNz(op, a) ==
    UNION {IF op = "horzcat"
           THEN Shifted(NzSet(a[i]), 0, SumTo([j \in 1 .. Len(a) |-> a[j].ncol], i - 1))
           ELSE Shifted(NzSet(a[i]), SumTo([j \in 1 .. Len(a) |-> a[j].nrow], i - 1), 0) :
           i \in 1 .. Len(a)}

\* An operand that C8 calls skipped: it has no rows or no columns.
Skipped(p) == p.nrow = 0 \/ p.ncol = 0

\* C8 as stated: the result is the concatenation of the operands that are not
\* skipped, and a skipped operand never makes the call fail.
C8_Original ==
    IsCat(res) =>
        LET kept == SelectSeq(res.args, LAMBDA p : ~Skipped(p))
        IN /\ (\A i, j \in 1 .. Len(kept) :
                  FixDim(res.op, kept[i]) = FixDim(res.op, kept[j])) => res.ok
           /\ res.ok =>
                 /\ CatDim(res.op, res.out[1])
                       = SumTo([j \in 1 .. Len(kept) |-> CatDim(res.op, kept[j])], Len(kept))
                 /\ NzSet(res.out[1]) = CatNz(res.op, kept)

\* C8 (amended): in horzcat (vertcat) over two or more patterns an operand
\* without rows (columns), a 0x0 one included, never makes the call fail and
\* adds no nonzeros, but its columns (rows) are part of the result: the
\* result has the columns (rows) of all operands, in order. An operand
\* without columns (rows) but with rows (columns) is no exception: its row
\* (column) count has to agree.
C8_CatKeepsEveryOperand ==
    IsCat(res) =>
        LET full == {i \in 1 .. Len(res.args) : FixDim(res.op, res.args[i]) # 0}
        IN /\ (\A i, j \in full :
                  FixDim(res.op, res.args[i]) = FixDim(res.op, res.args[j])) => res.ok
           /\ res.ok =>
                 /\ Valid(res.out[1])
                 /\ CatDim(res.op, res.out[1])
                       = SumTo([j \in 1 .. Len(res.args) |-> CatDim(res.op, res.args[j])],
                               Len(res.args))
                 /\ \A i \in full :
                       FixDim(res.op, res.out[1]) = FixDim(res.op, res.args[i])
                 /\ (full = {}) => FixDim(res.op, res.out[1]) = 0
                 /\ NzSet(res.out[1]) = CatNz(res.op, res.args)

\* horzcat of a pattern without rows but with a column and a pattern with
\* nonzeros: the result has the columns of both.
C8_Witness ==
    /\ res.op = "horzcat"
    /\ res.ok
    /\ Len(res.args) = 2
    /\ res.args[1].nrow = 0
    /\ res.args[1].ncol > 0
    /\ res.args[2].nrow > 0
    /\ Len(res.args[2].row) > 0
    /\ res.out[1].ncol = res.args[1].ncol + res.args[2].ncol

\* C9 as stated: whenever horzcat([A, B]) succeeds, horzsplit of the result
\* at [0, A.size2(), A.size2() + B.size2()] succeeds and returns A and B.
C9_Original ==
    (res.op = "horzcat_horzsplit" /\ res.ok) =>
        /\ res.split_ok
        /\ res.out = res.args

\* C9 (amended): for A and B with the same number of rows and at least one
\* column each, horzcat([A, B]) succeeds and horzsplit of the result at
\* [0, A.size2(), A.size2() + B.size2()] succeeds and returns exactly A
\* and B, in that order.
C9_CatSplitRoundTrip ==
    (/\ res.op = "horzcat_horzsplit"
     /\ res.args[1].nrow = res.args[2].nrow
     /\ res.args[1].ncol >= 1
     /\ res.args[2].ncol >= 1) =>
        /\ res.ok
        /\ res.split_ok
        /\ res.out = res.args

\* Two different patterns with nonzeros were concatenated and split again.
C9_Witness ==
    /\ res.op = "horzcat_horzsplit"
    /\ res.ok
    /\ res.split_ok
    /\ res.args[1] # res.args[2]
    /\ Len(res.args[1].row) > 0
    /\ Len(res.args[2].row) > 0
    /\ res.args[1].ncol = 2
    /\ res.out = res.args

\* C10: horzcat (vertcat) over two or more operands fails if and only if two
\* operands have different non-zero row (column) counts; when it fails no
\* pattern is returned and no operand has changed.
C10_CatFailsIffMismatch ==
    IsCat(res) =>
        /\ ~res.ok <=>
              \E i, j \in 1 .. Len(res.args) :
                 /\ FixDim(res.op, res.args[i]) # 0
                 /\ FixDim(res.op, res.args[j]) # 0
                 /\ FixDim(res.op, res.args[i]) # FixDim(res.op, res.args[j])
        /\ ~res.ok => (res.out = <<>> /\ Values(res.ints) = res.args)

\* vertcat failed on operands with one and two columns.
C10_Witness ==
    /\ res.op = "vertcat"
    /\ ~res.ok
    /\ Len(res.args) = 2
    /\ res.args[1].ncol = 1
    /\ res.args[2].ncol = 2
    /\ res.out = <<>>

\* The arguments of the recorded add_nz call lie in [-size1, size1) and
\* [-size2, size2).
AddNzInRange(r) ==
    /\ r.ints[1] >= -r.args[1].nrow
    /\ r.ints[1] < r.args[1].nrow
    /\ r.ints[2] >= -r.args[1].ncol
    /\ r.ints[2] < r.args[1].ncol

\* A negative index counts from the end.
FromEnd(i, n) == IF i < 0 THEN i + n ELSE i

\* C11: add_nz(rr, cc) with in-range arguments (negative ones counted from
\* the end) leaves the handle on the pattern of the same dimensions whose
\* nonzero set is the old one plus (rr, cc) and returns the compressed index
\* of that position in it; an existing position leaves the pattern as it is.
C11_AddNzAddsPosition ==
    (res.op = "add_nz" /\ AddNzInRange(res)) =>
        /\ res.ok
        /\ LET p == res.args[1]
               q == res.out[1]
               rr == FromEnd(res.ints[1], p.nrow)
               cc == FromEnd(res.ints[2], p.ncol)
           IN /\ q.nrow = p.nrow
              /\ q.ncol = p.ncol
              /\ Valid(q)
              /\ NzSet(q) = NzSet(p) \cup {<<rr, cc>>}
              /\ At(q.colind, cc) <= res.ret
              /\ res.ret < At(q.colind, cc + 1)
              /\ At(q.row, res.ret) = rr
              /\ (<<rr, cc>> \in NzSet(p)) => q = p

\* A position given by negative indices went in front of existing nonzeros
\* of a pattern that is not dense (the sorted insertion).
C11_Witness ==
    /\ res.op = "add_nz"
    /\ res.ok
    /\ res.ints[1] < 0
    /\ res.ints[2] < 0
    /\ Len(res.out[1].row) = Len(res.args[1].row) + 1
    /\ res.ret + 1 < Len(res.out[1].row)
    /\ res.ret >= 1

CtorOps == {"Sparsity", "SparsityPtr", "compressed"}

\* The rows of the dense nrow x ncol pattern.
DenseRows(nrow, ncol) == [k \in 1 .. ncol * nrow |-> (k - 1) % nrow]

\* C12: construction from explicit arrays (the vector or the pointer
\* constructor, or compressed) either fails or returns exactly the supplied
\* rows, cols, colind and row; the rows are regenerated as those of the
\* dense pattern only when they are left out and colind[cols] = rows*cols.
\* A supplied row index outside [0, rows) is rejected, and so is a compact
\* array that has neither the dense nor the sparse length.
C12_ExactOrRejected ==
    (res.op \in CtorOps /\ res.has_colind) =>
        /\ res.ok =>
              /\ res.out[1].nrow = res.nrow
              /\ res.out[1].ncol = res.ncol
              /\ res.out[1].colind = res.colind
              /\ res.has_row => res.out[1].row = res.row
              /\ ~res.has_row =>
                    /\ At(res.colind, res.ncol) = res.nrow * res.ncol
                    /\ res.out[1].row = DenseRows(res.nrow, res.ncol)
        /\ (res.has_row /\ \E k \in 1 .. Len(res.row) :
                              res.row[k] < 0 \/ res.row[k] >= res.nrow) => ~res.ok
        /\ (res.op = "compressed"
            /\ Len(res.v) # 2 + res.ncol + 1
            /\ Len(res.v) # 2 + res.ncol + 1 + At(res.colind, res.ncol)) => ~res.ok

\* The recorded triplet call violates a precondition.
TripletBad(a) ==
    \/ a.nrow < 0
    \/ a.ncol < 0
    \/ Len(a.row) # Len(a.col)
    \/ \E k \in 1 .. Len(a.row) : a.row[k] < 0 \/ a.row[k] >= a.nrow
    \/ \E k \in 1 .. Len(a.col) : a.col[k] < 0 \/ a.col[k] >= a.ncol

\* C13: triplet fails, gives the caller no pattern and leaves the cache as
\* it is whenever a dimension is negative, row and col differ in length or
\* an index is out of range; Sparsity(nrow, ncol) and dense(nrow, ncol) fail
\* whenever a dimension is negative.
C13_PreconditionsRejected ==
    [][/\ (last'.op = "triplet" /\ TripletBad(last'.args)) =>
              /\ ~last'.ok
              /\ UNCHANGED <<handle, node, cache, bucket_count>>
       /\ (last'.op \in {"Sparsity2", "dense"}
           /\ (last'.args.nrow < 0 \/ last'.args.ncol < 0)) => ~last'.ok]_vars

\* A triplet call with a row index equal to nrow failed while the cache
\* held an entry.
C13_Witness ==
    /\ last.op = "triplet"
    /\ ~last.ok
    /\ last.args.nrow >= 1
    /\ last.args.ncol >= 1
    /\ Len(last.args.row) = 1
    /\ Len(last.args.col) = 1
    /\ last.args.row[1] = last.args.nrow
    /\ last.args.col[1] < last.args.ncol
    /\ Len(cache) > 0

\* C14: row(el) throws exactly when el < 0 or el >= nnz(), colind(cc)
\* exactly when cc < 0 or cc > size2(); otherwise they return the stored
\* element at that index.
C14_AccessorsRangeChecked ==
    /\ res.op = "row" =>
          /\ ~res.ok <=> (res.ints[1] < 0 \/ res.ints[1] >= Len(res.args[1].row))
          /\ res.ok => res.value = res.args[1].row[res.ints[1] + 1]
    /\ res.op = "colind" =>
          /\ ~res.ok <=> (res.ints[1] < 0 \/ res.ints[1] > res.args[1].ncol)
          /\ res.ok => res.value = res.args[1].colind[res.ints[1] + 1]

\* colind(size2()) returned the number of nonzeros of a pattern that has
\* some.
C14_Witness ==
    /\ res.op = "colind"
    /\ res.ok
    /\ res.ints[1] = res.args[1].ncol
    /\ res.value = Len(res.args[1].row)
    /\ res.value >= 2

\* The one-to-one assignments of a row to every column of p.
Transversals(p) ==
    {f \in [0 .. p.ncol - 1 -> 0 .. p.nrow - 1] :
        \A c, d \in 0 .. p.ncol - 1 : c # d => f[c] # f[d]}

\* C15: is_singular() fails on a pattern that is not square and yields no
\* boolean; on a square pattern it is true exactly when the structural rank
\* differs from size2(), that is when no assignment of distinct rows to all
\* columns lies within the nonzeros.
C15_SingularIffRankDeficient ==
    res.op = "is_singular" =>
        LET p == res.args[1]
        IN /\ p.nrow # p.ncol => ~res.ok
           /\ p.nrow = p.ncol =>
                 /\ res.ok
                 /\ res.value <=>
                       ~\E f \in Transversals(p) :
                           \A c \in 0 .. p.ncol - 1 : <<f[c], c>> \in NzSet(p)

\* A square pattern with as many nonzeros as columns was found singular.
C15_Witness ==
    /\ res.op = "is_singular"
    /\ res.ok
    /\ res.value = TRUE
    /\ res.args[1].ncol = 2
    /\ Len(res.args[1].row) = 2

\* C16: for patterns A and B of equal dimensions A.unite(B) has exactly the
\* nonzeros of A or B, A.intersect(B) exactly the nonzeros of A and B, and
\* A.unite(A) is structurally equal to A.
C16_UniteIntersect ==
    (/\ res.op \in {"unite", "intersect"}
     /\ res.args[1].nrow = res.args[2].nrow
     /\ res.args[1].ncol = res.args[2].ncol) =>
        /\ res.ok
        /\ Valid(res.out[1])
        /\ res.out[1].nrow = res.args[1].nrow
        /\ res.out[1].ncol = res.args[1].ncol
        /\ res.op = "unite" =>
              /\ NzSet(res.out[1]) = NzSet(res.args[1]) \cup NzSet(res.args[2])
              /\ res.args[1] = res.args[2] => res.out[1] = res.args[1]
        /\ res.op = "intersect" =>
              NzSet(res.out[1]) = NzSet(res.args[1]) \cap NzSet(res.args[2])

\* Two patterns that share a nonzero and have each one of their own were
\* intersected.
C16_Witness ==
    /\ res.op = "intersect"
    /\ res.ok
    /\ Len(res.out[1].row) >= 1
    /\ NzSet(res.args[1]) \ NzSet(res.args[2]) # {}
    /\ NzSet(res.args[2]) \ NzSet(res.args[1]) # {}

\* Some handle owns, after the step, a cached node of the structure P.
OwnedAfter(P) ==
    \E g \in Handles : /\ handle'[g] \notin ({0} \cup Singletons)
                       /\ node'[handle'[g]] = P

\* C18: a step removes cache entries only if it is a call of assign_cached
\* that inserted a new entry and found the bucket count changed; such a
\* call removes every entry that was dead, in whatever hash range; and no
\* step removes the entry of a pattern that is still owned.
C18_SweepOnlyOnRehash ==
    [][LET swept == last'.kind = "insert" /\ bucket_count' # bucket_count
       IN /\ ~swept =>
               /\ Len(cache') >= Len(cache)
               /\ \A k \in DOMAIN cache : cache'[k].key = cache[k].key
          /\ swept =>
               Len(cache') <= Cardinality({k \in DOMAIN cache : alive(cache[k])}) + 1
          /\ \A k \in DOMAIN cache :
                (alive(cache[k]) /\ OwnedAfter(node[cache[k].ref])) =>
                    \E j \in DOMAIN cache' :
                        /\ alive(cache'[j])
                        /\ cache'[j].key = cache[k].key
                        /\ node'[cache'[j].ref] = node[cache[k].ref]
      ]_vars

\* The second insertion grew the table from 1 to 3 buckets and the dead
\* entry of the first one, stored under the other hash, was erased.
C18_Witness ==
    /\ last.kind = "insert"
    /\ bucket_count = 3
    /\ Len(cache) = 1
    /\ alive(cache[1])

\* C19: dense(nrow, ncol) with nrow, ncol >= 0 succeeds and leaves the
\* caller on the nrow-by-ncol pattern with nrow*ncol nonzeros,
\* colind[c] = c*nrow and row[k] = k mod nrow; dense(2, 3) has colind
\* [0,2,4,6] and row [0,1,0,1,0,1]; dense(0, 0) is the empty singleton and
\* dense(1, 1) the dense-scalar singleton.
C19_DenseLayout ==
    [][(last'.op = "dense" /\ last'.args.nrow >= 0 /\ last'.args.ncol >= 0) =>
         LET nrow == last'.args.nrow
             ncol == last'.args.ncol
             p == node'[handle'[last'.h]]
         IN /\ last'.ok
            /\ p.nrow = nrow
            /\ p.ncol = ncol
            /\ Len(p.row) = nrow * ncol
            /\ Len(p.colind) = ncol + 1
            /\ \A c \in 0 .. ncol : At(p.colind, c) = c * nrow
            /\ \A k \in 0 .. nrow * ncol - 1 : At(p.row, k) = k % nrow
            /\ (nrow = 0 /\ ncol = 0) => handle'[last'.h] = EmptyNode
            /\ (nrow = 1 /\ ncol = 1) => handle'[last'.h] = ScalarNode
            /\ (nrow = 2 /\ ncol = 3) =>
                  p.colind = <<0, 2, 4, 6>> /\ p.row = <<0, 1, 0, 1, 0, 1>>
      ]_vars

\* dense(2, 3) was called and the caller holds its six nonzeros.
C19_Witness ==
    /\ last.op = "dense"
    /\ last.ok
    /\ last.args = [nrow |-> 2, ncol |-> 3]
    /\ Len(node[handle[last.h]].row) = 6

\* The triplets are sorted by (column, row) and no pair occurs twice.
SortedNoDuplicate(row, col) ==
    \A k \in 1 .. Len(col) - 1 :
        col[k] < col[k + 1] \/ (col[k] = col[k + 1] /\ row[k] < row[k + 1])

\* C20: triplet takes its quick return exactly for the inputs that are
\* sorted by (column, row) without a duplicate pair; the quick return copies
\* the rows as given, returns the identity mapping, and its pattern is the
\* one of the general path: the valid pattern of the given pairs.
C20_FastPathIffSorted ==
    (res.op = "triplet" /\ InRange(res)) =>
        /\ res.fast <=> SortedNoDuplicate(res.row, res.col)
        /\ res.fast =>
              /\ res.ok
              /\ res.out[1].row = res.row
              /\ res.mapping = [k \in 1 .. Len(res.row) |-> k - 1]
              /\ Valid(res.out[1])
              /\ NzSet(res.out[1]) = {<<res.row[k], res.col[k]>> : k \in 1 .. Len(res.row)}

\* The dead entries of the hash range of req, by position.
DeadInRange(req) ==
    {k \in DOMAIN cache :
        /\ cache[k].key = hash_sparsity(req.nrow, req.ncol, req.colind, req.row)
        /\ ~alive(cache[k])}

\* C21: assign_cached answers a request from the cache only with an entry
\* that is alive; when the hash range of the request holds a dead entry and
\* no live equal pattern, the new node is registered in the first dead
\* entry of the range and the number of entries stays the same; and every
\* node that exists is owned by a handle, never by the cache alone.
C21_DeadEntryReused ==
    [][/\ (AssignCalled(last') /\ ~Trivial(last'.req)) =>
            /\ last'.kind = "match" => LiveEqual(last'.req) # {}
            /\ (DeadInRange(last'.req) # {} /\ LiveEqual(last'.req) = {}) =>
                  LET k == CHOOSE i \in DeadInRange(last'.req) :
                              \A j \in DeadInRange(last'.req) : i <= j
                  IN /\ last'.kind = "replace"
                     /\ Len(cache') = Len(cache)
                     /\ cache'[k].key = cache[k].key
                     /\ last'.ok =>
                           /\ alive(cache'[k])
                           /\ cache'[k].ref = handle'[last'.h]
                           /\ node'[handle'[last'.h]] = last'.req
       /\ \A n \in NodeIds \ Singletons :
             node'[n] # Free => \E h \in Handles : handle'[h] = n
      ]_vars

\* A new node took the place of the first of two entries, which was dead,
\* while the second entry, of the same hash, is alive.
C21_Witness ==
    /\ last.op = "construct"
    /\ last.kind = "replace"
    /\ last.ok
    /\ Len(cache) = 2
    /\ cache[1].ref = handle[last.h]
    /\ alive(cache[2])
    /\ cache[2].key = cache[1].key

\* C22: horzsplit(x, offset) succeeds exactly when offset is non-empty,
\* strictly increasing, starts with 0 and ends with x.size2(); it then
\* returns len(offset)-1 patterns, the i-th with x.size1() rows,
\* offset[i+1]-offset[i] columns and the nonzeros (r, c-offset[i]) of the
\* nonzeros (r, c) of x with offset[i] <= c < offset[i+1], its rows being the
\* slice of the rows of x.
C22_HorzsplitSlices ==
    res.op = "horzsplit" =>
        LET x == res.args[1]
            off == res.ints
        IN /\ res.ok <=>
                 /\ Len(off) >= 1
                 /\ off[1] = 0
                 /\ off[Len(off)] = x.ncol
                 /\ \A i \in 1 .. Len(off) - 1 : off[i] < off[i + 1]
           /\ res.ok =>
                 /\ Len(res.out) = Len(off) - 1
                 /\ \A i \in 1 .. Len(off) - 1 :
                       LET q == res.out[i]
                       IN /\ q.nrow = x.nrow
                          /\ q.ncol = off[i + 1] - off[i]
                          /\ Valid(q)
                          /\ NzSet(q) = {<<e[1], e[2] - off[i]>> :
                                           e \in {f \in NzSet(x) :
                                                    off[i] <= f[2] /\ f[2] < off[i + 1]}}
                          /\ q.row = SubSeq(x.row, At(x.colind, off[i]) + 1,
                                            At(x.colind, off[i + 1]))

\* A pattern with nonzeros in both of its columns was split into its two
\* columns.
C22_Witness ==
    /\ res.op = "horzsplit"
    /\ res.ok
    /\ res.ints = <<0, 1, 2>>
    /\ Len(res.out[1].row) > 0
    /\ Len(res.out[2].row) > 0

IsAppend(r) == r.op \in {"append", "appendColumns"}

\* The dimension append (appendColumns) adds to, and the one it keeps.
Along(op, p) == IF op = "append" THEN p.nrow ELSE p.ncol
Across(op, p) == IF op = "append" THEN p.ncol ELSE p.nrow

IsEmpty(p) == p.nrow = 0 /\ p.ncol = 0

\* The nonzeros of x and, shifted behind x, those of sp.
AppendedNz(op, x, sp) ==
    NzSet(x) \cup (IF op = "append" THEN Shifted(NzSet(sp), x.nrow, 0)
                   ELSE Shifted(NzSet(sp), 0, x.ncol))

\* What every call of append and appendColumns does, whichever case it
\* takes: it fails exactly on two non-0x0 patterns that differ in the
\* dimension that is kept, and then leaves the handle on the old pattern;
\* otherwise the handle refers to a valid pattern of the summed dimension
\* with the old nonzeros and the shifted ones of sp.
AppendCommon(r) ==
    LET x == r.args[1]
        sp == r.args[2]
        y == r.out[1]
    IN /\ ~r.ok <=> (~IsEmpty(x) /\ ~IsEmpty(sp) /\ Across(r.op, x) # Across(r.op, sp))
       /\ ~r.ok => y = x
       /\ r.ok =>
             /\ Valid(y)
             /\ Along(r.op, y) = Along(r.op, x) + Along(r.op, sp)
             /\ NzSet(y) = AppendedNz(r.op, x, sp)

\* C23 as stated: besides the above, an sp that is 0x0 or has no rows
\* (columns) leaves the handle on the old pattern, and a receiver that is
\* 0x0 or has no rows (columns) ends on sp.
C23_Original ==
    IsAppend(res) =>
        /\ AppendCommon(res)
        /\ res.ok =>
              /\ (IsEmpty(res.args[2]) \/ Along(res.op, res.args[2]) = 0)
                    => res.out[1] = res.args[1]
              /\ (IsEmpty(res.args[1]) \/ Along(res.op, res.args[1]) = 0)
                    => res.out[1] = res.args[2]

\* C23 (amended): the special cases apply in this order: a 0x0 sp leaves
\* the handle on the old pattern; otherwise a 0x0 receiver ends on sp;
\* otherwise, the kept dimensions being equal, an sp without rows (columns)
\* leaves the handle on the old pattern, and otherwise a receiver without
\* rows (columns) ends on sp.
C23_AppendRebinds ==
    IsAppend(res) =>
        /\ AppendCommon(res)
        /\ res.ok =>
              LET x == res.args[1]
                  sp == res.args[2]
                  y == res.out[1]
              IN IF IsEmpty(sp) THEN y = x
                 ELSE IF IsEmpty(x) THEN y = sp
                 ELSE IF Along(res.op, sp) = 0 THEN y = x
                 ELSE IF Along(res.op, x) = 0 THEN y = sp
                 ELSE /\ Across(res.op, y) = Across(res.op, x)
                      /\ y # x

\* append put a pattern with nonzeros below a matrix with nonzeros.
C23_Witness ==
    /\ res.op = "append"
    /\ res.ok
    /\ res.args[1].ncol = 2
    /\ res.args[1].nrow = 2
    /\ Len(res.args[1].row) > 0
    /\ Len(res.args[2].row) > 0
    /\ res.out[1].nrow = 2 + res.args[2].nrow

\* The positions of the n x n matrix.
Square(n) == (0 .. n - 1) \X (0 .. n - 1)

\* C24: band(n, p) with |p| < n returns the n x n pattern whose nonzeros
\* are the positions (r, c) with r - c = p, and banded(n, p) with
\* 0 <= p < n the n x n pattern whose nonzeros are the positions with
\* |r - c| <= p.
C24_BandPositions ==
    /\ (res.op = "band" /\ Abs(res.ints[2]) < res.ints[1]) =>
          /\ res.ok
          /\ res.out[1].nrow = res.ints[1]
          /\ res.out[1].ncol = res.ints[1]
          /\ Valid(res.out[1])
          /\ NzSet(res.out[1]) = {q \in Square(res.ints[1]) : q[1] - q[2] = res.ints[2]}
    /\ (res.op = "banded" /\ 0 <= res.ints[2] /\ res.ints[2] < res.ints[1]) =>
          /\ res.ok
          /\ res.out[1].nrow = res.ints[1]
          /\ res.out[1].ncol = res.ints[1]
          /\ Valid(res.out[1])
          /\ NzSet(res.out[1]) = {q \in Square(res.ints[1]) : Abs(q[1] - q[2]) <= res.ints[2]}

\* band(2, -1): the single nonzero lies above the diagonal, at (0, 1).
C24_Witness ==
    /\ res.op = "band"
    /\ res.ok
    /\ res.ints = <<2, -1>>
    /\ NzSet(res.out[1]) = {<<0, 1>>}

Rejected(l) == l.op = "construct" /\ ~l.ok

\* C25 as stated: a rejected construction from explicit arrays leaves the
\* cache exactly as it was: no entry, live or dead, is added.
C25_Original ==
    [][Rejected(last') => (cache' = cache /\ bucket_count' = bucket_count)]_vars

\* C25 (amended): a rejected construction changes no handle, no node and no
\* live cache entry, but the rejected structure has been through
\* assign_cached: if its hash range held a dead entry the cache is as
\* before, and otherwise a dead entry with its hash is appended, after the
\* dead entries were erased if the insertion changed the bucket count.
C25_RejectedLeavesDeadEntry ==
    [][Rejected(last') =>
         /\ handle' = handle
         /\ node' = node
         /\ last'.kind \in {"replace", "insert"}
         /\ last'.kind = "replace" => (cache' = cache /\ bucket_count' = bucket_count)
         /\ last'.kind = "insert" =>
               cache' = Append(IF bucket_count' # bucket_count
                               THEN SelectSeq(cache, alive) ELSE cache,
                               [key |-> hash_sparsity(last'.req.nrow, last'.req.ncol,
                                                      last'.req.colind, last'.req.row),
                                ref |-> 0])
      ]_vars

\* A rejected construction left a dead entry behind a live one.
C25_Witness ==
    /\ Rejected(last)
    /\ last.kind = "insert"
    /\ Len(cache) = 2
    /\ alive(cache[1])
    /\ ~alive(cache[2])

\* C26 as stated: whenever horzsplit(x, offset) succeeds, horzcat of its
\* outputs succeeds and is structurally equal to x.
C26_Original ==
    (res.op = "horzsplit_horzcat" /\ res.ok) =>
        /\ res.cat_ok
        /\ res.out[1] = res.args[1]

\* C26 (amended): whenever horzsplit(x, offset) succeeds, horzcat of its
\* outputs succeeds; it is structurally equal to x unless x has no columns
\* but rows, in which case offset is [0], there are no outputs, and horzcat
\* of the empty list is the 0x0 pattern.
C26_SplitCatRoundTrip ==
    (res.op = "horzsplit_horzcat" /\ res.ok) =>
        /\ res.cat_ok
        /\ IF res.args[1].ncol = 0 /\ res.args[1].nrow > 0
           THEN /\ res.ints = <<0>>
                /\ res.pieces = <<>>
                /\ res.out[1] = EmptySparsity
           ELSE res.out[1] = res.args[1]

\* A pattern whose second column has no nonzeros was split into its two
\* columns and put together again.
C26_Witness ==
    /\ res.op = "horzsplit_horzcat"
    /\ res.ok
    /\ Len(res.pieces) = 2
    /\ Len(res.pieces[1].row) > 0
    /\ Len(res.pieces[2].row) = 0
    /\ res.out[1] = res.args[1]

\* The positions (k, i) of the product of x and A that have a witness j.
ProductNz(x, A) ==
    {q \in (0 .. x.nrow - 1) \X (0 .. A.ncol - 1) :
        \E j \in 0 .. x.ncol - 1 : <<q[1], j>> \in NzSet(x) /\ <<j, q[2]>> \in NzSet(A)}

\* C27: norm_0_mul(x, A) fails when A.size1() # x.size2() and otherwise
\* returns the number of positions (k, i) for which some j has (k, j) a
\* nonzero of x and (j, i) a nonzero of A, each position counted once.
C27_Norm0MulCountsProduct ==
    res.op = "norm_0_mul" =>
        /\ ~res.ok <=> res.args[2].nrow # res.args[1].ncol
        /\ res.ok => res.value = Cardinality(ProductNz(res.args[1], res.args[2]))

\* The product of two dense 2x2 patterns: four positions, each with two
\* witnesses j.
C27_Witness ==
    /\ res.op = "norm_0_mul"
    /\ res.ok
    /\ Len(res.args[1].row) = 4
    /\ Len(res.args[2].row) = 4
    /\ res.value = 4


\* ------------------------------------------- IdasInterface: the handlers
\* One IDAS call of a handler: name is the function called, assigned tells
\* whether its return value is stored in the local variable flag, and module
\* is the name the handler reports when it finds flag != IDA_SUCCESS after
\* the call ("" when flag is not tested there).
IdasCall(name, assigned, module) ==
    [name |-> name, assigned |-> assigned, module |-> module]

\* flag = name(...); followed by the test of flag.
Tested(name) == IdasCall(name, TRUE, name)

RECURSIVE RunCalls(_, _, _, _)
\* The calls of one handler from the i-th on. The call named fail returns
\* IDA_ILL_INPUT and every other call IDA_SUCCESS; flag is the handler's local
\* variable, which a call changes only if its return value is assigned. The
\* result is the module of the error raised ("" for none) and the calls made.
\* No list tests flag before a call has assigned it.
RunCalls(calls, i, flag, fail) ==
    IF i > Len(calls)
    THEN [error |-> "", made |-> [k \in 1 .. Len(calls) |-> calls[k].name]]
    ELSE LET c == calls[i]
             returned == IF c.name = fail THEN "IDA_ILL_INPUT" ELSE "IDA_SUCCESS"
             flag1 == IF c.assigned THEN returned ELSE flag
         IN IF c.module # "" /\ flag1 # "IDA_SUCCESS"
            THEN [error |-> c.module, made |-> [k \in 1 .. i |-> calls[k].name]]
            ELSE RunCalls(calls, i + 1, flag1, fail)

\* A handler with its own local flag makes the calls, unless an error has
\* been raised already.
Run(s, calls, fail) ==
    IF s.error # "" THEN s
    ELSE LET r == RunCalls(calls, 1, "indeterminate", fail)
             failing == \E k \in 1 .. Len(r.made) : r.made[k] = fail
         IN [s EXCEPT !.error = r.error,
                      !.made = @ \o r.made,
                      !.fail = IF failing THEN fail ELSE @,
                      !.failed = @ \/ failing]

\* Lines 168-259: the IDAS calls of init() after IDACreate. The return value
\* of IDAInit is neither stored nor tested, and the return value of
\* IDASetMaxNumSteps is not stored although flag is tested after it
\* (lines 208-209).
InitCalls(s) ==
    <<IdasCall("IDAInit", FALSE, ""),
      Tested("IDASetErrHandlerFn"), Tested("IDASetSuppressAlg"),
      Tested("IDASetMaxOrd"), Tested("IDASetUserData"), Tested("IDASetMaxStep"),
      Tested("IDASStolerances"),
      IdasCall("IDASetMaxNumSteps", FALSE, "IDASetMaxNumSteps"),
      Tested("IDASetId"), Tested("IDADense")>>
    \o (IF s.nq > 0
        THEN <<Tested("IDAQuadInit")>>
             \o (IF s.quad_err_con
                 THEN <<Tested("IDASetQuadErrCon"), Tested("IDAQuadSStolerances")>>
                 ELSE <<>>)
        ELSE <<>>)

\* Lines 121-282: init() frees the memory block, creates a new one, makes
\* its calls and clears both flags at its end.
init(s, fail) ==
    LET s1 == Run([s EXCEPT !.mem = TRUE, !.ntaping = 0, !.nadj = 0],
                  InitCalls(s), fail)
    IN IF s1.error # "" THEN s1
       ELSE [s1 EXCEPT !.isInitTaping_ = FALSE, !.isInitAdj_ = FALSE]

\* initTaping() that leaves isInitTaping_ as it is.
initTapingKeepsFlag(s, fail) ==
    IF s.isInitTaping_
    THEN [s EXCEPT !.error = "casadi_assert", !.asserted = TRUE]
    ELSE IF s.interpolation_type \notin {"hermite", "polynomial"}
    THEN [s EXCEPT !.error = "interpolation_type"]
    ELSE LET s1 == Run(s, <<Tested("IDAAdjInit")>>, fail)
         IN IF s1.error # "" THEN s1
            ELSE [s1 EXCEPT !.ntaping = @ + 1]

\* Lines 284-305.
initTaping(s, fail) ==
    IF s.isInitTaping_
    THEN [s EXCEPT !.error = "casadi_assert", !.asserted = TRUE]
    ELSE IF s.interpolation_type \notin {"hermite", "polynomial"}
    THEN [s EXCEPT !.error = "interpolation_type"]
    ELSE LET s1 == Run(s, <<Tested("IDAAdjInit")>>, fail)
         IN IF s1.error # "" THEN s1
            ELSE [s1 EXCEPT !.isInitTaping_ = TRUE, !.ntaping = @ + 1]

\* Lines 314-375: the IDAS calls of initAdj(). The return value of
\* IDASetMaxNumStepsB is not stored although flag is tested after it
\* (lines 331-332).
InitAdjCalls(s) ==
    <<Tested("IDACreateB"), Tested("IDAInitB"), Tested("IDASStolerancesB"),
      Tested("IDASetUserDataB"),
      IdasCall("IDASetMaxNumStepsB", FALSE, "IDASetMaxNumStepsB"),
      Tested("IDASetIdB"), Tested("IDADenseB"), Tested("IDAQuadInitB")>>
    \o (IF s.quad_err_con
        THEN <<Tested("IDASetQuadErrConB"), Tested("IDAQuadSStolerancesB")>>
        ELSE <<>>)

\* Lines 307-381.
initAdj(s, fail) ==
    IF s.isInitAdj_
    THEN [s EXCEPT !.error = "casadi_assert", !.asserted = TRUE]
    ELSE LET s1 == Run(s, InitAdjCalls(s), fail)
             created == \E k \in Len(s.made) + 1 .. Len(s1.made) :
                           s1.made[k] = "IDACreateB" /\ s1.error # "IDACreateB"
             s2 == [s1 EXCEPT !.nadj = IF created THEN @ + 1 ELSE @]
         IN IF s2.error # "" THEN s2
            ELSE [s2 EXCEPT !.isInitAdj_ = TRUE]

\* Lines 606-661: reset() initializes the taping if there is a backward
\* problem and the taping is not initialized, and then re-initializes.
reset(s, fail) ==
    LET s1 == IF s.nrx > 0 /\ ~s.isInitTaping_ THEN initTaping(s, fail) ELSE s
    IN Run(s1,
           <<Tested("IDAReInit")>>
           \o (IF s.nq > 0 THEN <<Tested("IDAQuadReInit")>> ELSE <<>>)
           \o <<Tested("IDASensToggleOff"), Tested("IDACalcIC"),
                Tested("IDAGetConsistentIC")>>
           \o (IF s.nrx > 0 THEN <<Tested("IDAAdjReInit")>> ELSE <<>>),
           fail)

\* Lines 762-804: resetB() re-initializes the backward problem if it is
\* initialized and initializes it otherwise. With nrq_ = 0 the test of
\* line 783 repeats the test of line 775.
resetB(s, fail) ==
    LET s1 == IF s.isInitAdj_
              THEN Run(s,
                       <<Tested("IDAReInitB")>>
                       \o (IF s.nrq > 0
                           THEN <<IdasCall("IDAQuadReInit", TRUE, "IDAQuadReInitB")>>
                           ELSE <<>>),
                       fail)
              ELSE initAdj(s, fail)
    IN Run(s1, <<Tested("IDACalcICB"), Tested("IDAGetConsistentICB")>>, fail)

\* Lines 2035-2043: the Jacobian generator getJac() selects for a function
\* f_ of the given kind.
getJac(kind) ==
    IF kind = "sxfunction" THEN "getJacGen<SX>"
    ELSE IF kind = "mxfunction" THEN "getJacGen<MX>"
    ELSE "Not an SXFunction or MXFunction"

\* Lines 2025-2033: the same for getJacB() and g_; both tests ask for
\* "sxfunction".
getJacB(kind) ==
    IF kind = "sxfunction" THEN "getJacGenB<SX>"
    ELSE IF kind = "sxfunction" THEN "getJacGenB<MX>"
    ELSE "Not an SXFunction or MXFunction"

\* The IDAS calls that can be made to fail.
IdasFails ==
    {"none", "IDAInit", "IDASetMaxStep", "IDASetMaxNumSteps", "IDASetId",
     "IDAQuadSStolerances", "IDAAdjInit", "IDAReInit", "IDAAdjReInit",
     "IDACreateB", "IDASetMaxNumStepsB", "IDASetIdB", "IDAQuadSStolerancesB",
     "IDAReInitB", "IDAQuadReInit", "IDAGetConsistentICB"}

\* The object as a call of op finds it.
Begin(op) ==
    [idas EXCEPT !.op = op, !.fail = "none", !.error = "", !.made = <<>>,
                 !.before = [isInitTaping_ |-> idas.isInitTaping_,
                             isInitAdj_ |-> idas.isInitAdj_]]

\* Lines 52-92: an IdasInterface is constructed.
IdasCreate(cfg) ==
    /\ idas.op = "none"
    /\ idas' = IdasInterface(cfg)
    /\ UNCHANGED <<handle, node, cache, bucket_count, last, thread, avars>>

\* Lines 94-97: the object is destroyed.
IdasDestroy ==
    /\ idas.op # "none"
    /\ idas' = NoIdas
    /\ UNCHANGED <<handle, node, cache, bucket_count, last, thread, avars>>

InitCall(fail) ==
    /\ idas.op # "none"
    /\ idas' = init(Begin("init"), fail)
    /\ UNCHANGED <<handle, node, cache, bucket_count, last, thread, avars>>

\* reset() is called on an initialized object.
ResetCall(fail) ==
    /\ idas.mem
    /\ idas' = reset(Begin("reset"), fail)
    /\ UNCHANGED <<handle, node, cache, bucket_count, last, thread, avars>>

\* resetB() is called if there is a backward problem, after the forward
\* integration that reset() has started. A failing initAdj() can create a
\* backward problem at every call; MaxAdj bounds their number.
ResetBCall(fail) ==
    /\ idas.mem
    /\ idas.nrx > 0
    /\ idas.ntaping > 0
    /\ idas.nadj < MaxAdj
    /\ idas' = resetB(Begin("resetB"), fail)
    /\ UNCHANGED <<handle, node, cache, bucket_count, last, thread, avars>>

GetJacCall ==
    /\ idas.op # "none"
    /\ idas' = [Begin("getJac") EXCEPT
                  !.error = IF getJac(idas.f_kind) = "Not an SXFunction or MXFunction"
                            THEN getJac(idas.f_kind) ELSE ""]
    /\ UNCHANGED <<handle, node, cache, bucket_count, last, thread, avars>>

GetJacBCall ==
    /\ idas.op # "none"
    /\ idas' = [Begin("getJacB") EXCEPT
                  !.error = IF getJacB(idas.g_kind) = "Not an SXFunction or MXFunction"
                            THEN getJacB(idas.g_kind) ELSE ""]
    /\ UNCHANGED <<handle, node, cache, bucket_count, last, thread, avars>>

IdasNext ==
    \/ \E cfg \in IdasConfigs : IdasCreate(cfg)
    \/ IdasDestroy
    \/ \E fail \in IdasFails : InitCall(fail)
    \/ \E fail \in IdasFails : ResetCall(fail)
    \/ \E fail \in IdasFails : ResetBCall(fail)
    \/ GetJacCall
    \/ GetJacBCall

SpecIdas == Init /\ [][IdasNext]_vars

\* C28: in a sequence of init(), reset() and resetB() calls in which no IDAS
\* call fails, the taping and the backward problem of a memory block are
\* each initialized at most once and neither flag assertion fails: reset()
\* calls IDAAdjInit exactly when there is a backward problem and
\* isInitTaping_ was false (and the interpolation type is valid), resetB()
\* creates the backward problem exactly when isInitAdj_ was false and
\* re-initializes it exactly when isInitAdj_ was true, and a completed init()
\* leaves both flags false.
C28_TapingAndAdjOnce ==
    ~idas.failed =>
        /\ idas.ntaping <= 1
        /\ idas.nadj <= 1
        /\ ~idas.asserted
        /\ idas.op = "reset" =>
             ((\E k \in 1 .. Len(idas.made) : idas.made[k] = "IDAAdjInit")
              <=> (/\ idas.nrx > 0
                   /\ ~idas.before.isInitTaping_
                   /\ idas.interpolation_type \in {"hermite", "polynomial"}))
        /\ idas.op = "resetB" =>
             /\ (\E k \in 1 .. Len(idas.made) : idas.made[k] = "IDACreateB")
                <=> ~idas.before.isInitAdj_
             /\ (\E k \in 1 .. Len(idas.made) : idas.made[k] = "IDAReInitB")
                <=> idas.before.isInitAdj_
        /\ (idas.op = "init" /\ idas.error = "") =>
             ~idas.isInitTaping_ /\ ~idas.isInitAdj_

\* resetB() has re-initialized the backward problem that an earlier resetB()
\* initialized, on a memory block whose taping is initialized, without any
\* failure.
C28_Witness ==
    /\ idas.op = "resetB"
    /\ ~idas.failed
    /\ idas.error = ""
    /\ idas.before.isInitAdj_
    /\ idas.before.isInitTaping_
    /\ idas.ntaping = 1
    /\ idas.nadj = 1

\* C29: getJacB() returns a generator exactly when g_ is an sxfunction or an
\* mxfunction, which are the kinds getJac() accepts for f_.
C29_GetJacBAcceptsSxAndMx ==
    idas.op = "getJacB" =>
        /\ (idas.error = "") <=> idas.g_kind \in {"sxfunction", "mxfunction"}
        /\ (idas.error = "")
           <=> (getJac(idas.g_kind) # "Not an SXFunction or MXFunction")

\* C30: when IDASetMaxNumSteps fails in init(), or IDASetMaxNumStepsB in
\* initAdj(), an error naming that call is raised and no later call of the
\* initialization is made.
C30_MaxNumStepsFailureRaises ==
    /\ (idas.op = "init" /\ idas.fail = "IDASetMaxNumSteps") =>
          /\ idas.error = "IDASetMaxNumSteps"
          /\ \A k \in 1 .. Len(idas.made) : idas.made[k] # "IDASetId"
    /\ (/\ idas.op = "resetB"
        /\ idas.fail = "IDASetMaxNumStepsB"
        /\ \E k \in 1 .. Len(idas.made) : idas.made[k] = "IDASetMaxNumStepsB") =>
          /\ idas.error = "IDASetMaxNumStepsB"
          /\ \A k \in 1 .. Len(idas.made) : idas.made[k] # "IDASetIdB"

=============================================================================
